---- MODULE Spec2Model ----
(***************************************************************************)
(* The verification-and-consensus pipeline of NoCap:                       *)
(*   - VerificationService (verifyStatement, the five verifyWith* agents,  *)
(*     getLavaGatewayConsensus, calculateLocalConsensus,                   *)
(*     generateCorrectInformation);                                        *)
(*   - the App component's session handlers, handleTranscription and       *)
(*     processStatement (the speaker queue state machine).                 *)
(*                                                                         *)
(* Numbers: a JavaScript fraction count/total is kept as the pair          *)
(* [num, den]; a confidence is kept in percent.  The comparison            *)
(* count/total >= 0.6 of IEEE doubles agrees with the exact comparison     *)
(* 10*count >= 6*total for every total below 2^50 (3/5 rounds to the same  *)
(* double as the literal 0.6, and no other quotient of small integers is   *)
(* within one ulp of it).                                                  *)
(***************************************************************************)
EXTENDS Integers, Sequences, FiniteSets, TLC

VARIABLES
    \* ---- calculateLocalConsensus applied to a list of agents
    agentsIn,            \* the argument list (a sequence of agent records)
    localOut,            \* its result, or NoValue before the call
    \* ---- apiConfig
    apiKey,              \* apiConfig.<provider>.apiKey is set (non-empty)
    \* ---- one verifyStatement call, step by step
    vpc,                 \* position of the call
    response,            \* per roster agent: the fetch outcome that arrived
    settled,             \* per roster agent: what its promise resolved with
    lavaResp,            \* what the consensus authority answered
    lavaOut,             \* lavaGatewayConsensus
    synthResp,           \* what the synthesis call answered
    vresult,             \* the VerificationResult returned, or NoValue
    \* ---- the App component (React state) and its collaborators
    currentSession,      \* currentSession: 0 is null, else the session id
    memoSession,         \* currentSession as captured by the handleTranscription
                         \* the memoized handleStartListening passes on
    cbSession,           \* currentSession as captured by the callback held in
                         \* VoiceService.onTranscriptionCallback; NoCallback if none
    isListening,         \* isListening
    permissionError,     \* permissionError is not null
    sessionCount,        \* sessions the record store has created
    transcriptions,      \* transcriptions
    inserting,           \* insertSpeakerQueue calls in flight
    speakerQueue,        \* speakerQueue (the in-memory queue view)
    store,               \* the record store's speaker_queue rows: id -> status
    ppc,                 \* per queue entry: position of its processStatement call
    presult,             \* per queue entry: the local verificationResult
    verificationResults, \* verificationResults
    processingStatement, \* processingStatement: 0 is undefined, else the entry id
    waiting,             \* entries whose correction waits for a break
    spoken,              \* the messages passed to VoiceService.speak, in order
    nextUuid,            \* the next crypto.randomUUID()
    \* ---- the break detection and one waitForBreak call, in time
    isCurrentlySpeaking, \* isCurrentlySpeaking
    sinceAudio,          \* Date.now() - lastAudioTime, in ms
    capSpeaking,         \* isCurrentlySpeaking as captured by processStatement
    capSinceAudio,       \* Date.now() - lastAudioTime as captured, in ms
    bpc,                 \* position of the correction: idle, waiting, spoken
    elapsed,             \* ms since waitForBreak was called
    \* ---- the text functions, each applied to an input
    correctionOut,       \* what generateCorrectInformation returned (on agentsIn)
    textIn,              \* the text handed to the classifier or the segmenter
    classifierResp,      \* what the remote classifier answered
    delivered,           \* the TranscriptionResult kind and confidence delivered
    analysisResp,        \* what the remote semantic analysis answered
    statementsOut,       \* what splitStatements returned
    \* ---- VoiceService and its handleTranscription calls in flight
    onTranscriptionCallback, \* the listening session whose callback is
                         \* registered: 0 is undefined
    listens,             \* startListening calls so far
    transcriptionHistory, \* transcriptionHistory
    utterances,          \* utterances sent for transcription so far
    handling,            \* per slot: the utterance being handled
    contextPassed        \* the context argument of the latest call of
                         \* analyzeTranscription, splitStatements or
                         \* classifyStatementWithClaude

NoValue == [none |-> TRUE]

\* ------------------------------------------------------------------------
\* Data
\* ------------------------------------------------------------------------

Verdicts == {"true", "false", "inconclusive"}

\* What a provider may put in (or leave out of) the verdict field of a body
\* that parses: a proper verdict, another string ("TRUE", "maybe"), or no
\* field at all (JavaScript undefined).
BodyVerdicts == Verdicts \cup {"other", "undefined"}

Roster ==
    << "Claude (Anthropic)", "Fetch.ai", "Gemini (Google)", "Bright Data",
       "Llama (Lava Portal)" >>

RosterSize == 5

AgentIds == 1..RosterSize

\* The apiConfig entry each roster agent reads its key from.
KeyOf ==
    << "anthropic", "fetchAI", "gemini", "brightData", "lavaGateway" >>

Providers == {"anthropic", "fetchAI", "gemini", "brightData", "lavaGateway"}

Score(n, d) == [num |-> n, den |-> d]

ThresholdNum == 6

ThresholdDen == 10

Max3(a, b, c) ==
    IF a >= b /\ a >= c THEN a ELSE IF b >= c THEN b ELSE c

CountVerdict(agents, v) ==
    Cardinality({i \in DOMAIN agents : agents[i].verdict = v})

\* The mutant of calculateLocalConsensus: the threshold test is strict.
CalculateLocalConsensusStrict(agents) ==
    LET falseCount == CountVerdict(agents, "false")
        trueCount == CountVerdict(agents, "true")
        inconclusiveCount == CountVerdict(agents, "inconclusive")
        totalVotes == Len(agents)
    IN  IF falseCount * ThresholdDen > ThresholdNum * totalVotes
        THEN [verdict |-> "false", consensusScore |-> Score(falseCount, totalVotes)]
        ELSE IF trueCount * ThresholdDen > ThresholdNum * totalVotes
        THEN [verdict |-> "true", consensusScore |-> Score(trueCount, totalVotes)]
        ELSE [verdict |-> "inconclusive",
              consensusScore |->
                  Score(Max3(falseCount, trueCount, inconclusiveCount), totalVotes)]

\* The mutant of calculateLocalConsensus: the fallback score forgets the
\* inconclusive count.
CalculateLocalConsensusNoInc(agents) ==
    LET falseCount == CountVerdict(agents, "false")
        trueCount == CountVerdict(agents, "true")
        totalVotes == Len(agents)
    IN  IF falseCount * ThresholdDen >= ThresholdNum * totalVotes
        THEN [verdict |-> "false", consensusScore |-> Score(falseCount, totalVotes)]
        ELSE IF trueCount * ThresholdDen >= ThresholdNum * totalVotes
        THEN [verdict |-> "true", consensusScore |-> Score(trueCount, totalVotes)]
        ELSE [verdict |-> "inconclusive",
              consensusScore |->
                  Score(Max3(falseCount, trueCount, 0), totalVotes)]

\* The mutant of calculateLocalConsensus: the threshold is 40%.
CalculateLocalConsensusLow(agents) ==
    LET falseCount == CountVerdict(agents, "false")
        trueCount == CountVerdict(agents, "true")
        inconclusiveCount == CountVerdict(agents, "inconclusive")
        totalVotes == Len(agents)
    IN  IF falseCount * ThresholdDen >= 4 * totalVotes
        THEN [verdict |-> "false", consensusScore |-> Score(falseCount, totalVotes)]
        ELSE IF trueCount * ThresholdDen >= 4 * totalVotes
        THEN [verdict |-> "true", consensusScore |-> Score(trueCount, totalVotes)]
        ELSE [verdict |-> "inconclusive",
              consensusScore |->
                  Score(Max3(falseCount, trueCount, inconclusiveCount), totalVotes)]

\* calculateLocalConsensus: the 60% vote over agents.length entries.
CalculateLocalConsensus(agents) ==
    LET falseCount == CountVerdict(agents, "false")
        trueCount == CountVerdict(agents, "true")
        inconclusiveCount == CountVerdict(agents, "inconclusive")
        totalVotes == Len(agents)
    IN  IF falseCount * ThresholdDen >= ThresholdNum * totalVotes
        THEN [verdict |-> "false", consensusScore |-> Score(falseCount, totalVotes)]
        ELSE IF trueCount * ThresholdDen >= ThresholdNum * totalVotes
        THEN [verdict |-> "true", consensusScore |-> Score(trueCount, totalVotes)]
        ELSE [verdict |-> "inconclusive",
              consensusScore |->
                  Score(Max3(falseCount, trueCount, inconclusiveCount), totalVotes)]

\* ------------------------------------------------------------------------
\* The outcome of one fetch, as the agent code distinguishes it:
\*   "neterr"  fetch rejects (transport error)
\*   "nonok"   response.ok is false
\*   "badbody" response.json() / JSON.parse / a property read of the body throws
\*   "ok"      the body parses; its fields follow
\* ------------------------------------------------------------------------

FailureKinds == {"neterr", "nonok", "badbody"}

Outcome(k, v, c, r, n, cs) ==
    [kind |-> k, verdict |-> v, confidence |-> c, reasoning |-> r,
     results |-> n, citations |-> cs]

Failure(k) == Outcome(k, "undefined", 0, "", 0, << >>)

\* Bodies of the three prompt-driven agents (Claude, Gemini, Llama): the
\* verdict field may be proper, another string, or missing.
LlmBodies ==
    {Outcome("ok", v, 90, "why", 0, << >>) : v \in BodyVerdicts}

FetchAIBodies ==
    {Outcome("ok", v, 90, "why", 0, << >>) : v \in BodyVerdicts}
        \cup {Outcome("ok", "true", 0, "", 0, << >>)}

BrightDataBodies ==
    {Outcome("ok", "undefined", 0, "", n, << >>) : n \in {0, 2}}

LlamaBodies ==
    LlmBodies \cup {Outcome("ok", "false", 90, "why", 0, << "c1", "c1" >>)}

AgentOutcomes(i) ==
    {Failure(k) : k \in FailureKinds}
        \cup (CASE i = 2 -> FetchAIBodies
                [] i = 4 -> BrightDataBodies
                [] i = 5 -> LlamaBodies
                [] OTHER -> LlmBodies)

Agent(n, v, c, r, cs) ==
    [name |-> n, verdict |-> v, confidence |-> c, reasoning |-> r,
     citations |-> cs]

\* A promise of verifyWith* that has not settled yet.
Pending == Agent("", "pending", 0, "", << >>)

\* The mutant of NotConfigured: an agent without a key votes false.
NotConfiguredAsFalse(i) ==
    Agent(Roster[i], "false", 0, "API key not configured", << >>)

\* The early return of every verifyWith*: no key, no request.
NotConfigured(i) ==
    Agent(Roster[i], "inconclusive", 0,
          IF i = 5 THEN "Lava Gateway API key not configured"
          ELSE "API key not configured",
          << >>)

\* error.message of what the try block threw.
ErrorMessage(i, kind) ==
    CASE kind = "neterr" -> "Error: Failed to fetch"
      [] kind = "nonok" -> "Error: API error"
      [] OTHER -> "Error: Unexpected token"

\* The catch block of every verifyWith*.
Caught(i, kind) ==
    Agent(Roster[i], "inconclusive", 0, ErrorMessage(i, kind), << >>)

\* The mutant of VerifyWith: the catch block rethrows nothing but reports the
\* agent's failure as a vote for true.
VerifyWithFailureAsTrue(i, o) ==
    IF o.kind \in FailureKinds
    THEN Agent(Roster[i], "true", 0, ErrorMessage(i, o.kind), << >>)
    ELSE Agent(Roster[i], o.verdict, o.confidence, o.reasoning, << >>)

\* The try/catch of verifyWithClaude, verifyWithFetchAI, verifyWithGemini,
\* verifyWithBrightData and verifyWithLlama, given the fetch outcome o.
VerifyWith(i, o) ==
    IF o.kind \in FailureKinds THEN Caught(i, o.kind)
    ELSE CASE i = 2 ->
                Agent(Roster[i],
                      IF o.verdict = "undefined" THEN "inconclusive" ELSE o.verdict,
                      IF o.confidence = 0 THEN 80 ELSE o.confidence,
                      IF o.reasoning = "" THEN "Fetch.ai agent verification"
                      ELSE o.reasoning,
                      << >>)
           [] i = 4 ->
                IF o.results > 0
                THEN Agent(Roster[i], "true", 75, "Found supporting web sources", << >>)
                ELSE Agent(Roster[i], "inconclusive", 30,
                           "No conclusive web sources found", << >>)
           [] i = 5 ->
                Agent(Roster[i], o.verdict, o.confidence, o.reasoning, o.citations)
           [] OTHER ->
                Agent(Roster[i], o.verdict, o.confidence, o.reasoning, << >>)

\* agent.verdict.toUpperCase() in the logging loop of verifyStatement throws
\* a TypeError when a verdict is undefined.
LogThrows(agents) ==
    \E i \in DOMAIN agents : agents[i].verdict = "undefined"

\* What the consensus authority may answer.
LavaOutcomes ==
    {[kind |-> k, verdict |-> "undefined", score |-> Score(0, 1)] :
        k \in FailureKinds}
        \cup {[kind |-> "ok", verdict |-> v, score |-> Score(9, 10)] :
                v \in BodyVerdicts}

\* The mutant of GetLavaGatewayConsensus: the catch block gives up instead of
\* falling back to the local rule.
GetLavaGatewayConsensusNoFallback(keys, agents, o) ==
    IF ~keys["lavaGateway"] THEN CalculateLocalConsensus(agents)
    ELSE IF o.kind \in FailureKinds
    THEN [verdict |-> "inconclusive", consensusScore |-> Score(0, 1)]
    ELSE [verdict |-> o.verdict, consensusScore |-> o.score]

\* getLavaGatewayConsensus, given the outcome o of its fetch (not read when
\* the key is not configured).
GetLavaGatewayConsensus(keys, agents, o) ==
    IF ~keys["lavaGateway"] THEN CalculateLocalConsensus(agents)
    ELSE IF o.kind \in FailureKinds THEN CalculateLocalConsensus(agents)
    ELSE [verdict |-> o.verdict, consensusScore |-> o.score]

\* lavaGatewayConsensus.verdict.toUpperCase() after the consensus step.
ConsensusLogThrows(lava) == lava.verdict = "undefined"

ConsensusOf(lava) ==
    IF lava.verdict = "true" THEN "verified_true"
    ELSE IF lava.verdict = "false" THEN "verified_false"
    ELSE "inconclusive"

IsFalseVote(a) == a.verdict = "false"

HasReasoning(a) == a.reasoning # ""

\* falseReasonings: the truthy reasonings of the agents that voted false.
FalseReasonings(agents) ==
    LET voters == SelectSeq(SelectSeq(agents, IsFalseVote), HasReasoning)
    IN  [k \in 1..Len(voters) |-> voters[k].reasoning]

RECURSIVE FlatCitations(_)
FlatCitations(voters) ==
    IF voters = << >> THEN << >>
    ELSE Head(voters).citations \o FlatCitations(Tail(voters))

\* allCitations: flatMap of the citations of the agents that voted false.
AllCitations(agents) == FlatCitations(SelectSeq(agents, IsFalseVote))

\* A correction text: a fixed label followed by a body.
Text(l, b) == [label |-> l, body |-> b]

GenericCorrection ==
    Text("", "The statement has been determined to be false, but specific corrections are unavailable.")

\* What the synthesis call may answer: a failure (the request fails, the
\* status is not OK, the body does not parse or has no content[0]), or a
\* body whose content[0] has a text or has none.
SynthOutcomes ==
    {[kind |-> k, text |-> ""] : k \in FailureKinds}
        \cup {[kind |-> "ok", text |-> "synthesized"],
              [kind |-> "ok", text |-> "undefined"]}

\* generateCorrectInformation needs its fetch: some false voter gave a
\* reasoning and the Anthropic key is set.
SynthNeeded(keys, agents) ==
    FalseReasonings(agents) # << >> /\ keys["anthropic"]

\* generateCorrectInformation, given the outcome o of its fetch (not read
\* when no request is made).
GenerateCorrectInformation(keys, agents, o) ==
    IF FalseReasonings(agents) = << >>
    THEN [correctInformation |-> GenericCorrection, citations |-> [list |-> << >>]]
    ELSE IF keys["anthropic"] /\ o.kind = "ok"
    THEN [correctInformation |->
              IF o.text = "undefined" THEN NoValue ELSE Text("", o.text),
          citations |-> [list |-> AllCitations(agents)]]
    ELSE [correctInformation |-> Text("Correction: ", FalseReasonings(agents)[1]),
          citations |-> [list |-> AllCitations(agents)]]

\* { correctInformation: undefined, citations: undefined }
NoCorrection == [correctInformation |-> NoValue, citations |-> NoValue]

\* The object verifyStatement returns.
Result(id, agents, lava, correction) ==
    [statementId |-> id,
     isFalse |-> (lava.verdict = "false"),
     consensus |-> ConsensusOf(lava),
     correctInformation |-> correction.correctInformation,
     citations |-> correction.citations,
     agents |-> agents,
     lavaGatewayConsensus |-> lava]

\* ------------------------------------------------------------------------
\* Specification SpecLocal: calculateLocalConsensus on bounded vote lists
\* ------------------------------------------------------------------------

MaxVotes == 5

\* The verdict strings an agent entry can carry into the consensus step
\* (an undefined verdict never gets there: the logging loop throws first).
VoteVerdicts == Verdicts \cup {"other"}

RECURSIVE VoteLists(_)
VoteLists(n) ==
    IF n = 0 THEN {<< >>}
    ELSE {Append(l, Agent("agent", v, 50, "why", << >>)) :
            l \in VoteLists(n - 1), v \in VoteVerdicts}

VerifyIdle ==
    /\ vpc = "idle"
    /\ response = [i \in AgentIds |-> NoValue]
    /\ settled = [i \in AgentIds |-> Pending]
    /\ lavaResp = NoValue
    /\ lavaOut = NoValue
    /\ synthResp = NoValue
    /\ vresult = NoValue

LocalIdle ==
    /\ agentsIn = << >>
    /\ localOut = NoValue

\* Bounds of the queue model: utterances delivered, sessions created.
MaxTranscriptions == 2

MaxSessions == 1

EntryIds == 1..MaxTranscriptions

NoCallback == -1

\* The App component after its first render, nothing started.
QueueIdle ==
    /\ currentSession = 0
    /\ memoSession = 0
    /\ cbSession = NoCallback
    /\ isListening = FALSE
    /\ permissionError = FALSE
    /\ sessionCount = 0
    /\ transcriptions = << >>
    /\ inserting = {}
    /\ speakerQueue = << >>
    /\ store = [e \in EntryIds |-> "none"]
    /\ ppc = [e \in EntryIds |-> "none"]
    /\ presult = [e \in EntryIds |-> NoValue]
    /\ verificationResults = << >>
    /\ processingStatement = 0
    /\ waiting = {}
    /\ spoken = << >>
    /\ nextUuid = 1

\* The break-detection state after the first render: nobody has spoken,
\* lastAudioTime is the time of the mount, and the first processStatement
\* has captured both.
BreakIdle ==
    /\ isCurrentlySpeaking = FALSE
    /\ sinceAudio = 0
    /\ capSpeaking = FALSE
    /\ capSinceAudio = 0
    /\ bpc = "idle"
    /\ elapsed = 0

\* Bounds of the voice service model: listening sessions started,
\* utterances transcribed, handleTranscription calls in flight at once,
\* statements one utterance is split into, and the statements a session
\* that is under way has handled before.
MaxListens == 2

MaxUtterances == 3

EarlierStatements == 8

MaxInFlight == 2

MaxStatements == 2

\* The slots of the handleTranscription calls that run at the same time.
Slots == 1..MaxInFlight

NoCall ==
    [pc |-> "none", session |-> 0, utterance |-> 0, statements |-> 0,
     index |-> 0, delivered |-> << >>]

\* The VoiceService singleton after construction.
VoiceIdle ==
    /\ onTranscriptionCallback = 0
    /\ listens = 0
    /\ transcriptionHistory = << >>
    /\ utterances = 0
    /\ handling = [c \in Slots |-> NoCall]
    /\ contextPassed = << >>

\* No text function has been applied.
PureIdle ==
    /\ correctionOut = NoValue
    /\ textIn = NoValue
    /\ classifierResp = NoValue
    /\ delivered = NoValue
    /\ analysisResp = NoValue
    /\ statementsOut = NoValue
    /\ VoiceIdle

localVars == << agentsIn, localOut >>

verifyVars ==
    << vpc, response, settled, lavaResp, lavaOut, synthResp, vresult >>

queueVars ==
    << currentSession, memoSession, cbSession, isListening, permissionError,
       sessionCount, transcriptions, inserting, speakerQueue, store, ppc,
       presult, verificationResults, processingStatement, waiting, spoken,
       nextUuid >>

breakVars ==
    << isCurrentlySpeaking, sinceAudio, capSpeaking, capSinceAudio, bpc, elapsed >>

voiceVars ==
    << onTranscriptionCallback, listens, transcriptionHistory, utterances,
       handling, contextPassed >>

pureVars ==
    << correctionOut, textIn, classifierResp, delivered, analysisResp,
       statementsOut, voiceVars >>

vars == << localVars, apiKey, verifyVars, queueVars, breakVars, pureVars >>

InitLocal ==
    /\ agentsIn \in UNION {VoteLists(n) : n \in 1..MaxVotes}
    /\ localOut = NoValue
    /\ apiKey = [p \in Providers |-> FALSE]
    /\ VerifyIdle
    /\ QueueIdle
    /\ BreakIdle
    /\ PureIdle

ApplyLocal ==
    /\ localOut = NoValue
    /\ localOut' = CalculateLocalConsensus(agentsIn)
    /\ UNCHANGED << queueVars, breakVars, pureVars, agentsIn, apiKey, verifyVars >>

NextLocal == ApplyLocal

SpecLocal == InitLocal /\ [][NextLocal]_vars

\* ------------------------------------------------------------------------
\* Specification SpecVerify: one verifyStatement call, step by step.  The
\* five agent calls are dispatched together and settle in any order; the
\* code after "await Promise.all" runs once all five have settled.
\* ------------------------------------------------------------------------

\* The mutant of AllSettled: the wait ends with the first settled promise
\* (Promise.race in place of Promise.all).
SomeSettled(st) == \E i \in AgentIds : st[i] # Pending

\* await Promise.all([...]): every agent promise has settled.  No verifyWith*
\* promise ever rejects (each body is an early return or a try/catch whose
\* catch returns), so Promise.all cannot end early by rejection.
AllSettled(st) == \A i \in AgentIds : st[i] # Pending

\* const agents = [claudeResult, fetchAIResult, geminiResult,
\* brightDataResult, llamaResult]
AgentsArray(st) == [i \in AgentIds |-> st[i]]

\* The synchronous code of verifyStatement from the consensus result to the
\* next await or to the return.
AfterConsensus(agents, lava) ==
    /\ lavaOut' = lava
    /\ IF ConsensusLogThrows(lava)
       THEN /\ vpc' = "threw"
            /\ UNCHANGED vresult
       ELSE IF lava.verdict = "false"
       THEN IF SynthNeeded(apiKey, agents)
            THEN /\ vpc' = "synth"
                 /\ UNCHANGED vresult
            ELSE /\ vpc' = "returned"
                 /\ vresult' =
                      Result(1, agents, lava,
                             GenerateCorrectInformation(apiKey, agents,
                                                        [kind |-> "neterr", text |-> ""]))
       ELSE /\ vpc' = "returned"
            /\ vresult' = Result(1, agents, lava, NoCorrection)

\* verifyStatement is called: the five verifyWith* calls start.  An agent
\* whose key is not configured resolves at once, the others issue a fetch.
VerifyStart ==
    /\ vpc = "idle"
    /\ vpc' = "agents"
    /\ settled' = [i \in AgentIds |->
                     IF apiKey[KeyOf[i]] THEN Pending ELSE NotConfigured(i)]
    /\ UNCHANGED << queueVars, breakVars, pureVars, localVars, apiKey, response, lavaResp, lavaOut, synthResp, vresult >>

\* The fetch of agent i ends (in any of the ways the code distinguishes) and
\* the agent's promise resolves.
AgentSettles(i) ==
    /\ vpc = "agents"
    /\ settled[i] = Pending
    /\ \E o \in AgentOutcomes(i) :
          /\ response' = [response EXCEPT ![i] = o]
          /\ settled' = [settled EXCEPT ![i] = VerifyWith(i, o)]
    /\ UNCHANGED << queueVars, breakVars, pureVars, localVars, apiKey, vpc, lavaResp, lavaOut, synthResp, vresult >>

\* Promise.all resolves: the agents array is built and logged, and the
\* consensus step starts (locally when the Lava key is not configured).
AfterAgents ==
    /\ vpc = "agents"
    /\ AllSettled(settled)
    /\ LET agents == AgentsArray(settled)
       IN  IF LogThrows(agents)
           THEN /\ vpc' = "threw"
                /\ UNCHANGED << lavaOut, vresult >>
           ELSE IF apiKey["lavaGateway"]
           THEN /\ vpc' = "consensus"
                /\ UNCHANGED << lavaOut, vresult >>
           ELSE AfterConsensus(agents,
                    GetLavaGatewayConsensus(apiKey, agents, NoValue))
    /\ UNCHANGED << queueVars, breakVars, pureVars, localVars, apiKey, response, settled, lavaResp, synthResp >>

\* The consensus authority's fetch ends.
ConsensusSettles ==
    /\ vpc = "consensus"
    /\ \E o \in LavaOutcomes :
          /\ lavaResp' = o
          /\ AfterConsensus(AgentsArray(settled),
                 GetLavaGatewayConsensus(apiKey, AgentsArray(settled), o))
    /\ UNCHANGED << queueVars, breakVars, pureVars, localVars, apiKey, response, settled, synthResp >>

\* The synthesis fetch of generateCorrectInformation ends.
SynthSettles ==
    /\ vpc = "synth"
    /\ \E o \in SynthOutcomes :
          /\ synthResp' = o
          /\ vresult' =
               Result(1, AgentsArray(settled), lavaOut,
                      GenerateCorrectInformation(apiKey, AgentsArray(settled), o))
    /\ vpc' = "returned"
    /\ UNCHANGED << queueVars, breakVars, pureVars, localVars, apiKey, response, settled, lavaResp, lavaOut >>

InitVerify ==
    /\ LocalIdle
    /\ apiKey \in [Providers -> BOOLEAN]
    /\ VerifyIdle
    /\ QueueIdle
    /\ BreakIdle
    /\ PureIdle

NextVerify ==
    \/ VerifyStart
    \/ \E i \in AgentIds : AgentSettles(i)
    \/ AfterAgents
    \/ ConsensusSettles
    \/ SynthSettles

SpecVerify == InitVerify /\ [][NextVerify]_vars

\* ------------------------------------------------------------------------
\* Claims about calculateLocalConsensus (under SpecLocal)
\* ------------------------------------------------------------------------

\* The number of entries of the argument list voting v, counted entry by entry.
RECURSIVE Votes(_, _)
Votes(l, v) ==
    IF l = << >> THEN 0
    ELSE (IF Head(l).verdict = v THEN 1 ELSE 0) + Votes(Tail(l), v)

\* a/b = c/d as fractions.
SameFraction(s, c, d) == s.num * d = c * s.den

VerdictList(l) == [k \in 1..Len(l) |-> l[k].verdict]

ScenarioA == << "false", "false", "false", "true", "inconclusive" >>

ScenarioB == << "true", "true", "inconclusive", "inconclusive", "inconclusive" >>

\* C1: with N = Len(agentsIn), f = count(false)/N and t = count(true)/N:
\* f >= 0.6 gives verdict false with score f; otherwise t >= 0.6 gives verdict
\* true with score t; scenario A gives false with score 3/5.  Entries that are
\* neither true nor false count toward N only.
C1_ThresholdVerdict ==
    localOut # NoValue =>
        LET n == Len(agentsIn)
            f == Votes(agentsIn, "false")
            t == Votes(agentsIn, "true")
        IN  /\ 5 * f >= 3 * n =>
                /\ localOut.verdict = "false"
                /\ SameFraction(localOut.consensusScore, f, n)
            /\ (5 * f < 3 * n /\ 5 * t >= 3 * n) =>
                /\ localOut.verdict = "true"
                /\ SameFraction(localOut.consensusScore, t, n)
            /\ VerdictList(agentsIn) = ScenarioA =>
                /\ localOut.verdict = "false"
                /\ SameFraction(localOut.consensusScore, 6, 10)

\* C1 witness: the local rule has been applied to scenario A.
C1_Witness ==
    /\ localOut # NoValue
    /\ VerdictList(agentsIn) = ScenarioA

\* C2: when neither count(false)/N nor count(true)/N reaches 0.6 the verdict
\* is inconclusive and the score is max(count(false), count(true),
\* count(inconclusive))/N; scenario B gives inconclusive with score 0.6.
C2_BelowThreshold ==
    localOut # NoValue =>
        LET n == Len(agentsIn)
            f == Votes(agentsIn, "false")
            t == Votes(agentsIn, "true")
            u == Votes(agentsIn, "inconclusive")
        IN  /\ (5 * f < 3 * n /\ 5 * t < 3 * n) =>
                /\ localOut.verdict = "inconclusive"
                /\ \E m \in {f, t, u} :
                      /\ m >= f /\ m >= t /\ m >= u
                      /\ SameFraction(localOut.consensusScore, m, n)
            /\ VerdictList(agentsIn) = ScenarioB =>
                /\ localOut.verdict = "inconclusive"
                /\ SameFraction(localOut.consensusScore, 6, 10)

\* C2 witness: the local rule has been applied to scenario B.
C2_Witness ==
    /\ localOut # NoValue
    /\ VerdictList(agentsIn) = ScenarioB

\* ------------------------------------------------------------------------
\* Claims about verifyStatement (under SpecVerify)
\* ------------------------------------------------------------------------

\* The consensus authority did not deliver a verdict and a score: no key, a
\* failed request, or a body that parses and holds no verdict field.
AuthorityFailed ==
    \/ ~apiKey["lavaGateway"]
    \/ /\ lavaResp # NoValue
       /\ \/ lavaResp.kind \in FailureKinds
          \/ lavaResp.verdict = "undefined"

\* C3: once the consensus step has ended with the authority unconfigured,
\* unreachable, answering non-OK or answering a body that holds no verdict,
\* verifyStatement has not failed, the consensus is the local rule applied to
\* the same agent verdicts, and the returned result carries it.
C3_FallsBackToLocal ==
    (lavaOut # NoValue /\ AuthorityFailed) =>
        /\ vpc # "threw"
        /\ lavaOut = CalculateLocalConsensus(AgentsArray(settled))
        /\ vpc = "returned" =>
              /\ vresult.lavaGatewayConsensus =
                    CalculateLocalConsensus(AgentsArray(settled))
              /\ vresult.consensus =
                    ConsensusOf(CalculateLocalConsensus(AgentsArray(settled)))

\* The call of roster agent i failed: no key, or a fetch that ended in one of
\* the failures.
AgentFailed(i) ==
    \/ ~apiKey[KeyOf[i]]
    \/ /\ response[i] # NoValue
       /\ response[i].kind \in FailureKinds

\* C4: when verifyStatement ends, it has returned a result with one entry per
\* roster agent in dispatch order; a failed agent's entry is inconclusive with
\* confidence 0 and the failure reason, every other entry is what that agent's
\* call resolved with.
C4_CompleteResult ==
    vpc \in {"returned", "threw"} =>
        /\ vpc = "returned"
        /\ Len(vresult.agents) = RosterSize
        /\ \A i \in AgentIds :
              /\ vresult.agents[i].name = Roster[i]
              /\ AgentFailed(i) =>
                    /\ vresult.agents[i].verdict = "inconclusive"
                    /\ vresult.agents[i].confidence = 0
                    /\ vresult.agents[i].reasoning \in
                          {"API key not configured",
                           "Lava Gateway API key not configured",
                           "Error: Failed to fetch", "Error: API error",
                           "Error: Unexpected token"}
              /\ ~AgentFailed(i) => vresult.agents[i] = VerifyWith(i, response[i])

\* C5: the consensus step (and everything after it) finds all five agent
\* promises settled; no consensus and no result is computed from a partial
\* set of verdicts.
C5_ConsensusAfterAllSettled ==
    (vpc \notin {"idle", "agents"} \/ lavaOut # NoValue \/ vresult # NoValue) =>
        /\ \A i \in AgentIds : settled[i] # Pending
        /\ vresult # NoValue =>
              \A i \in AgentIds : vresult.agents[i] = settled[i]

\* C5 witness: the authority has been asked after all five agents answered
\* over the network.
C5_Witness ==
    /\ vpc = "consensus"
    /\ \A i \in AgentIds : response[i] # NoValue

\* ------------------------------------------------------------------------
\* verifyStatement as one function of what the network answers: the steps
\* of SpecVerify composed.  outs, lavaO and synthO are the fetch outcomes of
\* the agents, the authority and the synthesis call (each read only when the
\* call is made).
\* ------------------------------------------------------------------------

Threw == [threw |-> TRUE, result |-> NoValue]

Returned(r) == [threw |-> FALSE, result |-> r]

\* The mutant of VerifyStatement: the correction is generated whatever the
\* final verdict.
VerifyStatementAlwaysCorrects(keys, outs, lavaO, synthO, id) ==
    LET agents == [i \in AgentIds |->
                     IF keys[KeyOf[i]] THEN VerifyWith(i, outs[i])
                     ELSE NotConfigured(i)]
    IN  IF LogThrows(agents) THEN Threw
        ELSE LET lava == GetLavaGatewayConsensus(keys, agents, lavaO)
             IN  IF ConsensusLogThrows(lava) THEN Threw
                 ELSE Returned(
                        Result(id, agents, lava,
                               GenerateCorrectInformation(keys, agents, synthO)))

VerifyStatement(keys, outs, lavaO, synthO, id) ==
    LET agents == [i \in AgentIds |->
                     IF keys[KeyOf[i]] THEN VerifyWith(i, outs[i])
                     ELSE NotConfigured(i)]
    IN  IF LogThrows(agents) THEN Threw
        ELSE LET lava == GetLavaGatewayConsensus(keys, agents, lavaO)
             IN  IF ConsensusLogThrows(lava) THEN Threw
                 ELSE Returned(
                        Result(id, agents, lava,
                               IF lava.verdict = "false"
                               THEN GenerateCorrectInformation(keys, agents, synthO)
                               ELSE NoCorrection))

\* ------------------------------------------------------------------------
\* Specification Spec: the App component.  Sessions are started and stopped,
\* VoiceService delivers transcription results to the registered callback,
\* and every queued statement runs its own processStatement call; calls of
\* different entries interleave at their awaits.
\* ------------------------------------------------------------------------

\* TranscriptionResult.statementType
StatementTypes == {"declarative", "opinion", "question", "other"}

\* The kinds the queue model delivers: handleTranscription only
\* distinguishes declarative from the rest.
DeliveredTypes == {"declarative", "question"}

Texts == {"the sky is green", "water is dry"}

Item(id, session, text, status) ==
    [id |-> id, user_session_id |-> session, statement_text |-> text,
     processing_status |-> status]

\* The key configurations the queue model runs under: no provider
\* configured (the offline mode) and every provider configured.
QueueKeyConfigs ==
    {[p \in Providers |-> FALSE], [p \in Providers |-> TRUE]}

OkBody(v) == Outcome("ok", v, 90, "why", 0, << >>)

\* What the network answers to one verifyStatement call, as the queue model
\* samples it: everyone agrees the statement is true; a false majority with
\* the authority down and a synthesized correction; Claude's body lacking
\* its verdict.
Scenarios ==
    { [outs |-> << OkBody("true"), OkBody("true"), OkBody("true"),
                   Outcome("ok", "undefined", 0, "", 2, << >>), OkBody("true") >>,
       lava |-> [kind |-> "ok", verdict |-> "true", score |-> Score(9, 10)],
       synth |-> [kind |-> "ok", text |-> "synthesized"]],
      [outs |-> << OkBody("false"), OkBody("false"), OkBody("false"),
                   Outcome("ok", "undefined", 0, "", 0, << >>), OkBody("true") >>,
       lava |-> [kind |-> "neterr", verdict |-> "undefined", score |-> Score(0, 1)],
       synth |-> [kind |-> "ok", text |-> "synthesized"]],
      [outs |-> << OkBody("undefined"), OkBody("true"), OkBody("true"),
                   Outcome("ok", "undefined", 0, "", 2, << >>), OkBody("true") >>,
       lava |-> [kind |-> "ok", verdict |-> "true", score |-> Score(9, 10)],
       synth |-> [kind |-> "ok", text |-> "synthesized"]] }

\* The mutant of the queue update: the status is written to every item.
MapQueueEvery(queue, id, status) ==
    [k \in 1..Len(queue) |-> [queue[k] EXCEPT !.processing_status = status]]

\* prev.map((item) => (item.id === id ? newItem : item))
MapQueue(queue, id, status) ==
    [k \in 1..Len(queue) |->
       IF queue[k].id = id
       THEN [queue[k] EXCEPT !.processing_status = status]
       ELSE queue[k]]

\* handleStartListening.  The session insert may fail (logged), and
\* VoiceService.startListening registers the callback before it asks for the
\* microphone, which may be refused.  The callback passed is the
\* handleTranscription of the render that memoized handleStartListening
\* (its dependencies are isMultiUserMode and userSessionORM only).
StartListening(sessionOk, granted) ==
    /\ ~isListening
    /\ ~permissionError
    /\ sessionOk => sessionCount < MaxSessions
    /\ IF sessionOk
       THEN /\ sessionCount' = sessionCount + 1
            /\ currentSession' = sessionCount + 1
       ELSE UNCHANGED << sessionCount, currentSession >>
    /\ cbSession' = memoSession
    /\ isListening' = granted
    /\ permissionError' = ~granted
    /\ UNCHANGED << localVars, apiKey, verifyVars, breakVars, pureVars, memoSession, transcriptions,
                    inserting, speakerQueue, store, ppc, presult,
                    verificationResults, processingStatement, waiting, spoken,
                    nextUuid >>

\* handleStopListening: VoiceService.stopListening drops the callback; the
\* session row is closed, and currentSession is reset only if that succeeds.
StopListening(updateOk) ==
    /\ isListening
    /\ cbSession' = NoCallback
    /\ isListening' = FALSE
    /\ currentSession' = IF updateOk THEN 0 ELSE currentSession
    /\ UNCHANGED << localVars, apiKey, verifyVars, breakVars, pureVars, memoSession, permissionError,
                    sessionCount, transcriptions, inserting, speakerQueue, store,
                    ppc, presult, verificationResults, processingStatement,
                    waiting, spoken, nextUuid >>

\* The mode switch (enabled while not listening) changes isMultiUserMode:
\* handleStartListening is memoized anew and from now on passes the
\* handleTranscription of this render.  The mode itself is read by nothing
\* in the pipeline and is not kept, so only a switch that changes the
\* captured session is a step.
ToggleMode ==
    /\ ~isListening
    /\ memoSession # currentSession
    /\ memoSession' = currentSession
    /\ UNCHANGED << localVars, apiKey, verifyVars, breakVars, pureVars, currentSession, cbSession,
                    isListening, permissionError, sessionCount, transcriptions,
                    inserting, speakerQueue, store, ppc, presult,
                    verificationResults, processingStatement, waiting, spoken,
                    nextUuid >>

\* MicrophonePermissionAlert reports "granted": the error is cleared.
PermissionGranted ==
    /\ permissionError
    /\ permissionError' = FALSE
    /\ UNCHANGED << localVars, apiKey, verifyVars, breakVars, pureVars, currentSession, memoSession,
                    cbSession, isListening, sessionCount, transcriptions,
                    inserting, speakerQueue, store, ppc, presult,
                    verificationResults, processingStatement, waiting, spoken,
                    nextUuid >>

\* handleTranscription up to its first await: the result is appended to
\* transcriptions and, if it is declarative and the captured currentSession
\* is not null, the queue row is sent to the record store.
Deliver(text, type) ==
    /\ isListening
    /\ cbSession # NoCallback
    /\ Len(transcriptions) < MaxTranscriptions
    /\ transcriptions' =
          Append(transcriptions, [text |-> text, statementType |-> type])
    /\ inserting' =
          IF type = "declarative" /\ cbSession # 0
          THEN inserting \cup
                 {[t |-> Len(transcriptions) + 1, session |-> cbSession, text |-> text]}
          ELSE inserting
    /\ UNCHANGED << localVars, apiKey, verifyVars, breakVars, pureVars, currentSession, memoSession,
                    cbSession, isListening, permissionError, sessionCount,
                    speakerQueue, store, ppc, presult, verificationResults,
                    processingStatement, waiting, spoken, nextUuid >>

\* The row count of the record store's speaker_queue table.
Rows == Cardinality({e \in EntryIds : store[e] # "none"})

\* insertSpeakerQueue settles.  On success the row (status Pending) is
\* appended to speakerQueue and processStatement is called, which runs to
\* its first await: the upsert that records Processing.  On failure the
\* error is logged.  (The insert into the declarative-statement table that
\* follows writes a table nothing here reads.)
InsertSettles(r, ok) ==
    /\ r \in inserting
    /\ inserting' = inserting \ {r}
    /\ IF ok
       THEN LET id == Rows + 1
            IN  /\ store' = [store EXCEPT ![id] = "pending"]
                /\ speakerQueue' =
                      Append(speakerQueue, Item(id, r.session, r.text, "pending"))
                /\ ppc' = [ppc EXCEPT ![id] = "upsertProcessing"]
       ELSE UNCHANGED << store, speakerQueue, ppc >>
    /\ UNCHANGED << localVars, apiKey, verifyVars, breakVars, pureVars, currentSession, memoSession,
                    cbSession, isListening, permissionError, sessionCount,
                    transcriptions, presult, verificationResults,
                    processingStatement, waiting, spoken, nextUuid >>

\* A JavaScript-truthy correction text.
Truthy(t) == t # NoValue /\ (t.label # "" \/ t.body # "")

\* The mutant of SetById: a failed upsert has written the row all the same.
SetByIdWritesAnyway(rows, id, status, ok) ==
    [rows EXCEPT ![id] = status]

\* speakerQueueORM.setSpeakerQueueById(id, item): the row is replaced when
\* the call succeeds and left as it was when it fails.
SetById(rows, id, status, ok) ==
    IF ok THEN [rows EXCEPT ![id] = status] ELSE rows

\* The catch block of processStatement up to its await: the error is logged
\* and the upsert that records Failed is sent.
CatchStep == "upsertFailed"

\* The mutant of UpsertProcessingSettles: an entry starts only when no
\* other entry is being verified.
UpsertProcessingSettlesSerialized(e, ok) ==
    /\ ppc[e] = "upsertProcessing"
    /\ \A o \in EntryIds : ppc[o] # "verify"
    /\ store' = SetById(store, e, "processing", ok)
    /\ IF ok
       THEN /\ speakerQueue' = MapQueue(speakerQueue, e, "processing")
            /\ processingStatement' = e
            /\ ppc' = [ppc EXCEPT ![e] = "verify"]
       ELSE /\ ppc' = [ppc EXCEPT ![e] = CatchStep]
            /\ UNCHANGED << speakerQueue, processingStatement >>
    /\ UNCHANGED << localVars, apiKey, verifyVars, breakVars, pureVars, currentSession, memoSession,
                    cbSession, isListening, permissionError, sessionCount,
                    transcriptions, inserting, presult, verificationResults,
                    waiting, spoken, nextUuid >>

\* The upsert that records Processing settles.  On success the queue view
\* shows Processing, processingStatement is set and verifyStatement is
\* called; on failure control passes to the catch block.
UpsertProcessingSettles(e, ok) ==
    /\ ppc[e] = "upsertProcessing"
    /\ store' = SetById(store, e, "processing", ok)
    /\ IF ok
       THEN /\ speakerQueue' = MapQueue(speakerQueue, e, "processing")
            /\ processingStatement' = e
            /\ ppc' = [ppc EXCEPT ![e] = "verify"]
       ELSE /\ ppc' = [ppc EXCEPT ![e] = CatchStep]
            /\ UNCHANGED << speakerQueue, processingStatement >>
    /\ UNCHANGED << localVars, apiKey, verifyVars, breakVars, pureVars, currentSession, memoSession,
                    cbSession, isListening, permissionError, sessionCount,
                    transcriptions, inserting, presult, verificationResults,
                    waiting, spoken, nextUuid >>

\* The mutant of VerifyEnds: the result is not appended to
\* verificationResults.
VerifyEndsUnrecorded(e, sc) ==
    /\ ppc[e] = "verify"
    /\ nextUuid' = nextUuid + 1
    /\ LET out == VerifyStatement(apiKey, sc.outs, sc.lava, sc.synth, nextUuid)
       IN  IF out.threw
           THEN /\ ppc' = [ppc EXCEPT ![e] = "upsertFailed"]
                /\ UNCHANGED << presult, verificationResults >>
           ELSE /\ presult' = [presult EXCEPT ![e] = out.result]
                /\ UNCHANGED verificationResults
                /\ ppc' = [ppc EXCEPT ![e] = "upsertProcessed"]
    /\ UNCHANGED << localVars, apiKey, verifyVars, breakVars, pureVars, currentSession, memoSession,
                    cbSession, isListening, permissionError, sessionCount,
                    transcriptions, inserting, speakerQueue, store,
                    processingStatement, waiting, spoken >>

\* verifyStatement settles, the network having answered as in sc.  A result
\* is appended to verificationResults and the upsert that records Processed
\* is sent; a rejection passes control to the catch block.  (The statementId
\* is a random UUID: only its freshness is modelled.)
VerifyEnds(e, sc) ==
    /\ ppc[e] = "verify"
    /\ nextUuid' = nextUuid + 1
    /\ LET out == VerifyStatement(apiKey, sc.outs, sc.lava, sc.synth, nextUuid)
       IN  IF out.threw
           THEN /\ ppc' = [ppc EXCEPT ![e] = CatchStep]
                /\ UNCHANGED << presult, verificationResults >>
           ELSE /\ presult' = [presult EXCEPT ![e] = out.result]
                /\ verificationResults' = Append(verificationResults, out.result)
                /\ ppc' = [ppc EXCEPT ![e] = "upsertProcessed"]
    /\ UNCHANGED << localVars, apiKey, verifyVars, breakVars, pureVars, currentSession, memoSession,
                    cbSession, isListening, permissionError, sessionCount,
                    transcriptions, inserting, speakerQueue, store,
                    processingStatement, waiting, spoken >>

\* Some verifyStatement request goes over the network.
UsesNetwork == \E p \in Providers : apiKey[p]

\* verifyStatement with no key configured: no request is made and the call
\* completes on its own.
VerifyCompletesOffline(e) ==
    /\ ~UsesNetwork
    /\ \E sc \in Scenarios : VerifyEnds(e, sc)

\* verifyStatement with keys configured settles once every request it made
\* has been answered; no request carries a timeout.
VerifySettles(e) ==
    /\ UsesNetwork
    /\ \E sc \in Scenarios : VerifyEnds(e, sc)

\* The mutant of UpsertProcessedSettles: processStatement awaits the
\* correction it has scheduled.
UpsertProcessedSettlesAwaitsSpeech(e, ok) ==
    /\ ppc[e] = "upsertProcessed"
    /\ store' = SetById(store, e, "processed", ok)
    /\ IF ok
       THEN LET scheduled ==
                  presult[e].isFalse /\ Truthy(presult[e].correctInformation)
            IN  /\ speakerQueue' = MapQueue(speakerQueue, e, "processed")
                /\ processingStatement' = 0
                /\ waiting' = IF scheduled THEN waiting \cup {e} ELSE waiting
                /\ ppc' = [ppc EXCEPT ![e] =
                              IF scheduled THEN "awaitSpeech" ELSE "done"]
       ELSE /\ ppc' = [ppc EXCEPT ![e] = CatchStep]
            /\ UNCHANGED << speakerQueue, processingStatement, waiting >>
    /\ UNCHANGED << localVars, apiKey, verifyVars, breakVars, pureVars, currentSession,
                    memoSession, cbSession, isListening, permissionError,
                    sessionCount, transcriptions, inserting, presult,
                    verificationResults, spoken, nextUuid >>

\* The upsert that records Processed settles.  On success the queue view
\* shows Processed, processingStatement is cleared and, for a false
\* statement with a correction text, the correction is left waiting for a
\* break (fire and forget); on failure control passes to the catch block.
UpsertProcessedSettles(e, ok) ==
    /\ ppc[e] = "upsertProcessed"
    /\ store' = SetById(store, e, "processed", ok)
    /\ IF ok
       THEN /\ speakerQueue' = MapQueue(speakerQueue, e, "processed")
            /\ processingStatement' = 0
            /\ waiting' =
                  IF presult[e].isFalse /\ Truthy(presult[e].correctInformation)
                  THEN waiting \cup {e} ELSE waiting
            /\ ppc' = [ppc EXCEPT ![e] = "done"]
       ELSE /\ ppc' = [ppc EXCEPT ![e] = CatchStep]
            /\ UNCHANGED << speakerQueue, processingStatement, waiting >>
    /\ UNCHANGED << localVars, apiKey, verifyVars, breakVars, pureVars, currentSession, memoSession,
                    cbSession, isListening, permissionError, sessionCount,
                    transcriptions, inserting, presult, verificationResults,
                    spoken, nextUuid >>

\* The mutant of UpsertFailedSettles: the queue view is updated without
\* waiting for the upsert to complete.
UpsertFailedSettlesViewFirst(e, ok) ==
    /\ ppc[e] = "upsertFailed"
    /\ store' = SetById(store, e, "failed", ok)
    /\ speakerQueue' = MapQueue(speakerQueue, e, "failed")
    /\ processingStatement' = 0
    /\ ppc' = [ppc EXCEPT ![e] = IF ok THEN "done" ELSE "rejected"]
    /\ UNCHANGED << localVars, apiKey, verifyVars, breakVars, pureVars, currentSession, memoSession,
                    cbSession, isListening, permissionError, sessionCount,
                    transcriptions, inserting, presult, verificationResults,
                    waiting, spoken, nextUuid >>

\* The upsert of the catch block settles.  On success the queue view shows
\* Failed and processingStatement is cleared; on failure the promise of
\* processStatement rejects and nothing else is done.
UpsertFailedSettles(e, ok) ==
    /\ ppc[e] = "upsertFailed"
    /\ store' = SetById(store, e, "failed", ok)
    /\ IF ok
       THEN /\ speakerQueue' = MapQueue(speakerQueue, e, "failed")
            /\ processingStatement' = 0
            /\ ppc' = [ppc EXCEPT ![e] = "done"]
       ELSE /\ ppc' = [ppc EXCEPT ![e] = "rejected"]
            /\ UNCHANGED << speakerQueue, processingStatement >>
    /\ UNCHANGED << localVars, apiKey, verifyVars, breakVars, pureVars, currentSession, memoSession,
                    cbSession, isListening, permissionError, sessionCount,
                    transcriptions, inserting, presult, verificationResults,
                    waiting, spoken, nextUuid >>

LeadIn == "Actually, that's not quite right. "

\* waitForBreak resolves (by its poll or by its 10 s timer) and the
\* correction is passed to VoiceService.speak.
WaitForBreakResolves(e) ==
    /\ e \in waiting
    /\ waiting' = waiting \ {e}
    /\ spoken' = Append(spoken, [leadIn |-> LeadIn,
                                 text |-> presult[e].correctInformation])
    /\ UNCHANGED << localVars, apiKey, verifyVars, breakVars, pureVars, currentSession, memoSession,
                    cbSession, isListening, permissionError, sessionCount,
                    transcriptions, inserting, speakerQueue, store, ppc, presult,
                    verificationResults, processingStatement, nextUuid >>

Init ==
    /\ LocalIdle
    /\ apiKey \in QueueKeyConfigs
    /\ VerifyIdle
    /\ QueueIdle
    /\ BreakIdle
    /\ PureIdle

\* The steps the runtime and the record store take on their own.
NextProgram ==
    \/ \E r \in inserting, ok \in BOOLEAN : InsertSettles(r, ok)
    \/ \E e \in EntryIds, ok \in BOOLEAN : UpsertProcessingSettles(e, ok)
    \/ \E e \in EntryIds : VerifyCompletesOffline(e)
    \/ \E e \in EntryIds, ok \in BOOLEAN : UpsertProcessedSettles(e, ok)
    \/ \E e \in EntryIds, ok \in BOOLEAN : UpsertFailedSettles(e, ok)
    \/ \E e \in EntryIds : WaitForBreakResolves(e)

\* The steps of the user, the speaker and the verification providers.
NextEnvironment ==
    \/ \E sessionOk \in BOOLEAN, granted \in BOOLEAN :
          StartListening(sessionOk, granted)
    \/ \E updateOk \in BOOLEAN : StopListening(updateOk)
    \/ ToggleMode
    \/ PermissionGranted
    \/ \E text \in Texts, type \in DeliveredTypes : Deliver(text, type)
    \/ \E e \in EntryIds : VerifySettles(e)

Next == NextProgram \/ NextEnvironment

Spec == Init /\ [][Next]_vars

\* Spec with the progress the event loop and a responsive record store
\* give: every continuation whose awaited call has settled runs.  Nothing
\* obliges a verification provider to answer.
FairSpec == Spec /\ WF_vars(NextProgram)

\* ------------------------------------------------------------------------
\* Claims about the speaker queue (under Spec and FairSpec)
\* ------------------------------------------------------------------------

\* The status the in-memory queue view shows for entry e ("none": no item).
InMemory(e) ==
    IF \E k \in 1..Len(speakerQueue) : speakerQueue[k].id = e
    THEN speakerQueue[CHOOSE k \in 1..Len(speakerQueue) :
                         speakerQueue[k].id = e].processing_status
    ELSE "none"

Terminal == {"processed", "failed"}

\* C6: every queue entry that the queue view shows Processing is later
\* shown Processed or Failed, unless the record store rejected the write of
\* Failed itself (every provider call being bounded, nothing else can keep
\* the entry Processing).
C6_ProcessingEnds ==
    \A e \in EntryIds :
        (InMemory(e) = "processing") ~>
            (InMemory(e) \in Terminal \/ ppc[e] = "rejected")

\* C7: once an entry is Processed or Failed, in the queue view or in the
\* record store, its status there never changes again.
C7_TerminalIsFinal ==
    [][\A e \in EntryIds :
          /\ InMemory(e) \in Terminal => InMemory(e)' = InMemory(e)
          /\ store[e] \in Terminal => store'[e] = store[e]]_vars

\* C7 witness: an entry is Failed, in the view and in the store, after its
\* verification returned and the upsert recording Processed was attempted.
C7_Witness ==
    \E e \in EntryIds :
        /\ InMemory(e) = "failed"
        /\ store[e] = "failed"
        /\ presult[e] # NoValue

AllowedTransitions ==
    { << "none", "pending" >>, << "pending", "processing" >>,
      << "processing", "processed" >>, << "processing", "failed" >> }

\* C8: every change of an entry's status, in the queue view and in the
\* record store, is its creation as Pending, Pending->Processing,
\* Processing->Processed or Processing->Failed.
C8_OnlyForwardTransitions ==
    [][\A e \in EntryIds :
          /\ InMemory(e)' # InMemory(e) =>
                << InMemory(e), InMemory(e)' >> \in AllowedTransitions
          /\ store'[e] # store[e] =>
                << store[e], store'[e] >> \in AllowedTransitions]_vars

\* C9: an entry is Processed (in the queue view or in the record store)
\* only if its verifyStatement call has returned a result and that result is
\* in verificationResults.
C9_ProcessedHasResult ==
    \A e \in EntryIds :
        (InMemory(e) = "processed" \/ store[e] = "processed") =>
            /\ presult[e] # NoValue
            /\ \E k \in 1..Len(verificationResults) :
                  verificationResults[k] = presult[e]

\* C9 witness: an entry is Processed in the queue view and in the store.
C9_Witness ==
    \E e \in EntryIds :
        /\ InMemory(e) = "processed"
        /\ store[e] = "processed"

\* C10: an entry whose verifyStatement call returned a result is never
\* Failed, in the queue view or in the record store: a failing upsert is
\* only logged and the entry still ends Processed.
C10_FailedOnlyIfVerifyThrew ==
    \A e \in EntryIds :
        (InMemory(e) = "failed" \/ store[e] = "failed") => presult[e] = NoValue

\* C11: whenever the queue view shows an entry Processing, Processed or
\* Failed, the upsert of that status has completed: the record store holds
\* the same status for the entry.
C11_StoreBeforeView ==
    \A e \in EntryIds :
        InMemory(e) \in {"processing", "processed", "failed"} =>
            store[e] = InMemory(e)

\* C11 witness: an entry is shown Processing and its verification is in
\* flight, the upsert of Processing having completed.
C11_Witness ==
    \E e \in EntryIds :
        /\ InMemory(e) = "processing"
        /\ store[e] = "processing"
        /\ ppc[e] = "verify"

\* C12: the promise returned by processStatement never rejects.
C12_NeverRejects ==
    \A e \in EntryIds : ppc[e] # "rejected"

\* verifyStatement was called for entry e and threw: the catch block runs
\* with the entry Processing and no result.
VerifyThrew(e) ==
    /\ ppc[e] = "upsertFailed"
    /\ store[e] = "processing"
    /\ presult[e] = NoValue

AllInconclusive(r) ==
    \A i \in DOMAIN r.agents : r.agents[i].verdict = "inconclusive"

C14_DeclarativeIsQueued ==
    [][(Len(transcriptions') = Len(transcriptions) + 1 /\ currentSession # 0) =>
          ((transcriptions'[Len(transcriptions')].statementType = "declarative")
              <=> (Cardinality(inserting') = Cardinality(inserting) + 1))]_vars

PollMs == 100

\* Date.now() - lastAudioTime > 1000
BreakMs == 1000

\* setTimeout(..., 10000)
CeilingMs == 10000

Saturated(t) == IF t > BreakMs + PollMs THEN BreakMs + PollMs ELSE t

\* The test of the checkBreak interval, on the values it reads.
BreakSeen(speaking, since) == ~speaking /\ since > BreakMs

\* The mutant of TimerFired: there is no ceiling.
TimerNeverFires(t) == FALSE

\* The 10 s timer of waitForBreak has fired.
TimerFired(t) == t >= CeilingMs

\* The audio-level callback: a level above 0.1 sets isCurrentlySpeaking and
\* lastAudioTime; a lower one clears isCurrentlySpeaking once more than
\* 1000 ms have passed since lastAudioTime.
AudioLevel(high) ==
    /\ IF high
       THEN /\ isCurrentlySpeaking' = TRUE
            /\ sinceAudio' = 0
       ELSE /\ isCurrentlySpeaking' =
                  IF isCurrentlySpeaking /\ sinceAudio > BreakMs
                  THEN FALSE ELSE isCurrentlySpeaking
            /\ UNCHANGED sinceAudio
    /\ UNCHANGED << localVars, apiKey, verifyVars, queueVars, pureVars, capSpeaking,
                    capSinceAudio, bpc, elapsed >>

\* A render memoizes the callbacks anew: the processStatement that later
\* calls reach holds isCurrentlySpeaking and lastAudioTime as they are now.
\* (A call already waiting keeps the closure it was made with.)
Memoize ==
    /\ bpc # "waiting"
    /\ capSpeaking' = isCurrentlySpeaking
    /\ capSinceAudio' = sinceAudio
    /\ UNCHANGED << localVars, apiKey, verifyVars, queueVars, pureVars,
                    isCurrentlySpeaking, sinceAudio, bpc, elapsed >>

\* The queue variables the scheduler leaves alone.
queueVarsButSpoken ==
    << currentSession, memoSession, cbSession, isListening, permissionError,
       sessionCount, transcriptions, inserting, speakerQueue, store, ppc,
       presult, verificationResults, processingStatement, waiting, nextUuid >>

\* processStatement finds the statement false and calls waitForBreak.  The
\* corrections are followed one at a time: each waitForBreak call has its
\* own promise, interval and timer.
ScheduleCorrection ==
    /\ bpc = "idle" \/ (bpc = "spoken" /\ TimerFired(elapsed))
    /\ Len(spoken) < MaxTranscriptions
    /\ bpc' = "waiting"
    /\ elapsed' = 0
    /\ UNCHANGED << localVars, apiKey, verifyVars, queueVars, pureVars,
                    isCurrentlySpeaking, sinceAudio, capSpeaking, capSinceAudio >>

\* The mutant of Resolve: every call of resolve() runs the continuation.
ResolveAlwaysContinues(position, calls) ==
    [position |-> "spoken",
     calls |-> Append(calls, [leadIn |-> LeadIn, text |-> Text("", "synthesized")])]

\* resolve(): the first call settles the promise, and the code after
\* await waitForBreak() passes the message to VoiceService.speak; a call
\* on the settled promise does nothing.
Resolve(position, calls) ==
    IF position = "waiting"
    THEN [position |-> "spoken",
          calls |-> Append(calls, [leadIn |-> LeadIn,
                                   text |-> Text("", "synthesized")])]
    ELSE [position |-> position, calls |-> calls]

\* 100 ms pass.  While the promise is pending, checkBreak runs on the
\* values its closure holds and calls resolve() if it sees a break; the
\* 10 s timer, which nothing cancels, calls resolve() when it fires,
\* whether or not the poll has resolved before.
Tick ==
    /\ sinceAudio' = Saturated(sinceAudio + PollMs)
    /\ capSinceAudio' = Saturated(capSinceAudio + PollMs)
    /\ IF bpc \in {"waiting", "spoken"} /\ ~TimerFired(elapsed)
       THEN LET polled == IF bpc = "waiting"
                                /\ BreakSeen(capSpeaking, capSinceAudio')
                          THEN Resolve(bpc, spoken)
                          ELSE [position |-> bpc, calls |-> spoken]
                timed == IF TimerFired(elapsed')
                         THEN Resolve(polled.position, polled.calls)
                         ELSE polled
            IN  /\ elapsed' = elapsed + PollMs
                /\ bpc' = timed.position
                /\ spoken' = timed.calls
       ELSE UNCHANGED << bpc, elapsed, spoken >>
    /\ UNCHANGED << localVars, apiKey, verifyVars, queueVarsButSpoken,
                    pureVars, isCurrentlySpeaking, capSpeaking >>

InitBreak ==
    /\ LocalIdle
    /\ apiKey = [p \in Providers |-> FALSE]
    /\ VerifyIdle
    /\ QueueIdle
    /\ BreakIdle
    /\ PureIdle

NextBreak ==
    \/ \E high \in BOOLEAN : AudioLevel(high)
    \/ Memoize
    \/ ScheduleCorrection
    \/ Tick

SpecBreak == InitBreak /\ [][NextBreak]_vars

\* C16: while the ceiling has not elapsed, the speech-output call is made
\* only at a tick at which the speaking signal is false.
C16_SpokenOnlyInSilence ==
    [][(bpc = "waiting" /\ bpc' = "spoken") =>
          (elapsed' >= CeilingMs \/ ~isCurrentlySpeaking')]_vars

\* C17: a correction is never still waiting once the ceiling has elapsed
\* since it was scheduled, whatever the speaking signal does.
C17_CeilingHolds ==
    bpc = "waiting" => elapsed < CeilingMs

\* C17 witness: the speaking signal was true from the scheduling on, the
\* ceiling has elapsed and the correction has been spoken.
C17_Witness ==
    /\ bpc = "spoken"
    /\ elapsed = CeilingMs
    /\ isCurrentlySpeaking
    /\ capSpeaking

\* C18: every entry whose verification returned a result judged false
\* eventually has its correction text passed to VoiceService.speak.
C18_FalseIsCorrected ==
    \A e \in EntryIds :
        (presult[e] # NoValue /\ presult[e].isFalse) ~>
            (/\ presult[e] # NoValue
             /\ \E k \in 1..Len(spoken) :
                   spoken[k].text = presult[e].correctInformation)

\* C19: while an entry's correction waits for a break, the entry is
\* already Processed in the store and in the queue view and its
\* processStatement call has returned.
C19_SchedulingDoesNotBlock ==
    \A e \in waiting :
        /\ ppc[e] = "done"
        /\ store[e] = "processed"
        /\ InMemory(e) = "processed"

\* C19 witness: a correction is waiting while another entry, accepted
\* meanwhile, is being verified.
C19_Witness ==
    \E e1 \in waiting, e2 \in EntryIds :
        /\ e1 < e2
        /\ ppc[e2] = "verify"
        /\ InMemory(e2) = "processing"

Corrected(e) ==
    /\ presult[e] # NoValue
    /\ \E k \in 1..Len(spoken) : spoken[k].text = presult[e].correctInformation

\* C20: once the session is stopped, every entry whose verification is in
\* flight still ends Processed or Failed (unless the record store rejected
\* the write of Failed itself), and every correction that is waiting is
\* still spoken.
C20_StopRetractsNothing ==
    \A e \in EntryIds :
        /\ (~isListening /\ ppc[e] = "verify") ~>
              (InMemory(e) \in Terminal \/ ppc[e] = "rejected")
        /\ (~isListening /\ e \in waiting) ~> Corrected(e)

\* ------------------------------------------------------------------------
\* Claims about the correction
\* ------------------------------------------------------------------------

\* C21: a result carries a correction only if its verdict is false, and
\* every message passed to VoiceService.speak, and every correction waiting,
\* belongs to an entry that is Processed with consensus verified_false.
C21_CorrectionOnlyForFalse ==
    /\ \A e \in EntryIds :
          presult[e] # NoValue =>
              /\ presult[e].correctInformation # NoValue => presult[e].isFalse
              /\ presult[e].isFalse <=> presult[e].consensus = "verified_false"
    /\ \A e \in waiting :
          /\ InMemory(e) = "processed"
          /\ presult[e].consensus = "verified_false"
    /\ \A k \in 1..Len(spoken) :
          \E e \in EntryIds :
              /\ InMemory(e) = "processed"
              /\ presult[e].consensus = "verified_false"
              /\ spoken[k].text = presult[e].correctInformation

\* C21 witness: a correction has been spoken while another entry was judged
\* not false or has Failed.
C21_Witness ==
    /\ Len(spoken) > 0
    /\ \E e \in EntryIds :
          \/ InMemory(e) = "failed"
          \/ presult[e] # NoValue /\ ~presult[e].isFalse

\* ------------------------------------------------------------------------
\* Specification SpecCorrect: generateCorrectInformation applied to the
\* agents array of a verifyStatement call whose final verdict is false.
\* ------------------------------------------------------------------------

\* The reasoning each agent's body carries when it carries one.
ReasoningOf ==
    << "claude: it is blue", "fetch: it is blue", "gemini: it is blue",
       "", "llama: it is blue" >>

\* The bodies the agents answer with, as far as the correction reads them:
\* the verdict, a reasoning or none, and (Llama) a citation list.
CorrectionBodies(i) ==
    IF i = 4 THEN BrightDataBodies
    ELSE {Outcome("ok", v, 90, r, 0, cs) :
            v \in {"false", "true"},
            r \in {"", ReasoningOf[i]},
            cs \in IF i = 5
                   THEN {<< >>, << "c1", "c2" >>, << "c1", "c1" >>}
                   ELSE {<< >>}}

\* Every provider configured, or every provider but Anthropic.
CorrectionKeyConfigs ==
    {[p \in Providers |-> TRUE], [p \in Providers |-> p # "anthropic"]}

AgentsOf(keys, i) ==
    IF keys[KeyOf[i]] THEN {VerifyWith(i, o) : o \in CorrectionBodies(i)}
    ELSE {NotConfigured(i)}

AgentArrays(keys) ==
    {<< a1, a2, a3, a4, a5 >> :
        a1 \in AgentsOf(keys, 1), a2 \in AgentsOf(keys, 2),
        a3 \in AgentsOf(keys, 3), a4 \in AgentsOf(keys, 4),
        a5 \in AgentsOf(keys, 5)}

InitCorrect ==
    /\ apiKey \in CorrectionKeyConfigs
    /\ agentsIn \in AgentArrays(apiKey)
    /\ localOut = NoValue
    /\ VerifyIdle
    /\ QueueIdle
    /\ BreakIdle
    /\ PureIdle

\* generateCorrectInformation(statement, agentsIn), its fetch (when it makes
\* one) being answered with o.
GenerateCorrection(o) ==
    /\ correctionOut = NoValue
    /\ SynthNeeded(apiKey, agentsIn) \/ o = [kind |-> "neterr", text |-> ""]
    /\ synthResp' = IF SynthNeeded(apiKey, agentsIn) THEN o ELSE NoValue
    /\ correctionOut' = GenerateCorrectInformation(apiKey, agentsIn, o)
    /\ UNCHANGED << localVars, apiKey, vpc, response, settled, lavaResp,
                    lavaOut, vresult, queueVars, breakVars, textIn,
                    classifierResp, delivered, analysisResp, statementsOut,
                    voiceVars >>

NextCorrect == \E o \in SynthOutcomes : GenerateCorrection(o)

SpecCorrect == InitCorrect /\ [][NextCorrect]_vars

SomeVotedFalse(agents) == \E i \in DOMAIN agents : IsFalseVote(agents[i])

\* C22: the correction is the generic message exactly when no agent voted
\* false, and then its citation list is empty.
C22_GenericOnlyWithoutFalseVote ==
    correctionOut # NoValue =>
        /\ (correctionOut.correctInformation = GenericCorrection)
              <=> ~SomeVotedFalse(agentsIn)
        /\ ~SomeVotedFalse(agentsIn) => correctionOut.citations.list = << >>

RECURSIVE FirstOccurrences(_)
FirstOccurrences(cs) ==
    IF cs = << >> THEN << >>
    ELSE LET init == FirstOccurrences(SubSeq(cs, 1, Len(cs) - 1))
             last == cs[Len(cs)]
         IN  IF \E k \in 1..Len(init) : init[k] = last THEN init
             ELSE Append(init, last)

\* C23: the citation list returned with a correction built from the false
\* voters' reasonings is the citations of the agents that voted false, in
\* order, each kept at its first occurrence only.
C23_CitationsDeduplicated ==
    (correctionOut # NoValue /\ FalseReasonings(agentsIn) # << >>) =>
        correctionOut.citations.list = FirstOccurrences(AllCitations(agentsIn))

SynthesisUnavailable ==
    \/ ~apiKey["anthropic"]
    \/ synthResp # NoValue /\ synthResp.kind \in FailureKinds
    \/ synthResp # NoValue /\ synthResp.text = "undefined"

AllFalseVotersReason(agents) ==
    \A i \in DOMAIN agents : IsFalseVote(agents[i]) => HasReasoning(agents[i])

\* C24: when some agent voted false (each false voter giving a reasoning)
\* and the synthesis call is unconfigured or fails or answers an unusable
\* body, the correction is "Correction: " followed by the reasoning of the
\* first agent that voted false.
C24_FallbackQuotesFirstFalseVoter ==
    (/\ correctionOut # NoValue
     /\ SomeVotedFalse(agentsIn)
     /\ AllFalseVotersReason(agentsIn)
     /\ SynthesisUnavailable)
        => correctionOut.correctInformation =
              Text("Correction: ", SelectSeq(agentsIn, IsFalseVote)[1].reasoning)

\* ---------------------------------------------------------------------
\* Text.  A text is a sequence of tokens joined by single spaces; a
\* punctuation token is written directly after the token before it.  The
\* empty word Blank therefore stands for one more space: << "a", Blank >>
\* is "a " and << Blank, Blank >> is " ".  No word of a vocabulary below
\* extends a marker the classifier or the segmenter looks for.
\* ---------------------------------------------------------------------

Blank == ""

IsPunct(tok) == tok \in {"?", ".", ";", ","}

\* String.prototype.toLowerCase, on the capitalised words of the
\* vocabularies.
LowerWord(tok) ==
    CASE tok = "What" -> "what"
      [] tok = "I" -> "i"
      [] tok = "The" -> "the"
      [] tok = "Blue" -> "blue"
      [] tok = "And" -> "and"
      [] OTHER -> tok

ToLowerCase(t) == [k \in 1..Len(t) |-> LowerWord(t[k])]

RECURSIVE TrimStart(_)
TrimStart(t) ==
    IF t # << >> /\ t[1] = Blank THEN TrimStart(Tail(t)) ELSE t

RECURSIVE TrimEnd(_)
TrimEnd(t) ==
    IF t # << >> /\ t[Len(t)] = Blank
    THEN TrimEnd(SubSeq(t, 1, Len(t) - 1)) ELSE t

\* String.prototype.trim
Trim(t) == TrimEnd(TrimStart(t))

RECURSIVE Length(_)
\* String.prototype.length: the characters of the tokens and one space
\* before every token but the first, punctuation excepted.
Length(t) ==
    IF t = << >> THEN 0
    ELSE LET n == Len(t)
         IN  Length(SubSeq(t, 1, n - 1)) + Len(t[n])
               + (IF n > 1 /\ ~IsPunct(t[n]) THEN 1 ELSE 0)

\* normalized.endsWith(p) for a punctuation mark p
EndsWith(n, p) == n # << >> /\ n[Len(n)] = p

\* normalized.startsWith(phrase), the phrase given by its words; space
\* tells whether the phrase ends in a space.
StartsWith(n, p, space) ==
    /\ Len(n) >= Len(p)
    /\ SubSeq(n, 1, Len(p)) = p
    /\ space => (Len(n) > Len(p) /\ ~IsPunct(n[Len(p) + 1]))

\* normalized.includes(phrase) for a phrase without outer spaces
Includes(n, p) ==
    \E k \in 1..(Len(n) - Len(p) + 1) : SubSeq(n, k, k + Len(p) - 1) = p

\* normalized.includes(" w ") for a word w
IncludesSpaced(n, w) ==
    \E k \in 2..(Len(n) - 1) : n[k] = w /\ ~IsPunct(n[k + 1])

QuestionPrefixes ==
    {<< "how" >>, << "what" >>, << "when" >>, << "where" >>, << "who" >>,
     << "why" >>, << "could", "you" >>, << "would", "you" >>,
     << "can", "you" >>}

OpinionPhrases ==
    {<< "i", "think" >>, << "i", "believe" >>, << "in", "my", "opinion" >>,
     << "i", "feel" >>, << "i", "prefer" >>}

OpinionPrefixes ==
    {<< "i", "like" >>, << "i", "dislike" >>, << "i", "love" >>,
     << "i", "hate" >>}

FactVerbs ==
    {"is", "are", "was", "were", "has", "have", "will", "can", "does", "did"}

Pronouns == {"the", "it", "this", "that", "they", "there"}

\* The tokens of the vocabularies that hold a digit.
Numbers == {"7"}

IsQuestion(n) ==
    \/ EndsWith(n, "?")
    \/ \E p \in QuestionPrefixes : StartsWith(n, p, TRUE)

IsOpinion(n) ==
    \/ \E p \in OpinionPhrases : Includes(n, p)
    \/ \E p \in OpinionPrefixes : StartsWith(n, p, FALSE)

IsFactual(n) ==
    \/ \E w \in FactVerbs : IncludesSpaced(n, w)
    \/ \E k \in 1..Len(n) : n[k] \in Pronouns
    \/ \E k \in 1..Len(n) : n[k] \in Numbers

Normalized(text) == ToLowerCase(Trim(text))

OpinionFirst(text) ==
    LET normalized == Normalized(text)
    IN  IF IsOpinion(normalized) THEN "opinion"
        ELSE IF IsQuestion(normalized) THEN "question"
        ELSE IF IsFactual(normalized) THEN "declarative"
        ELSE "other"

ClassifyStatementType(text) ==
    LET normalized == Normalized(text)
    IN  IF IsQuestion(normalized) THEN "question"
        ELSE IF IsOpinion(normalized) THEN "opinion"
        ELSE IF IsFactual(normalized) THEN "declarative"
        ELSE "other"

\* ---------------------------------------------------------------------
\* The classifier: the body of handleTranscription's loop for one
\* statement, under every outcome of the remote classification call.
\* ---------------------------------------------------------------------

MaxChunks == 3

RECURSIVE Utterances(_, _)
\* The texts made of at most n chunks.
Utterances(chunks, n) ==
    IF n = 0 THEN {<< >>}
    ELSE LET shorter == Utterances(chunks, n - 1)
         IN  shorter \cup {t \o c : t \in shorter, c \in chunks}

ClassifierChunks ==
    {<< "What" >>, << "I", "think" >>, << "I", "like" >>, << "is" >>,
     << "it" >>, << "blue" >>, << "7" >>, << "?" >>, << Blank >>}

ClassifierExamples ==
    {<< "What", "time", "is", "it", "?" >>,
     << "Blue", "is", "the", "best", "color" >>,
     << "The", "sky", "is", "blue" >>}

\* What the remote classification call may answer: a failure (the request
\* fails, the status is not OK, the body does not parse), or a body with a
\* type and a confidence in percent, 0 standing for an absent one.
ClassifierOutcomes ==
    {[kind |-> k] : k \in FailureKinds}
        \cup {[kind |-> "ok", type |-> t, confidence |-> c] :
                t \in StatementTypes, c \in {0, 95}}

ClassifyStatementWithClaude(keys, o) ==
    IF ~keys["anthropic"]
    THEN [isDeclarative |-> TRUE, confidence |-> 50,
          reasoning |-> "API key not configured, using fallback"]
    ELSE IF o.kind \in FailureKinds
    THEN [isDeclarative |-> TRUE, confidence |-> 50,
          reasoning |-> "Classification failed, defaulting to declarative"]
    ELSE [isDeclarative |-> o.type = "declarative",
          confidence |-> IF o.confidence = 0 THEN 80 ELSE o.confidence,
          reasoning |-> ""]

\* What one semantic-analysis service may do: it has no key, its call
\* throws (the request fails, the status is not OK, the body does not
\* parse), or it answers an improved text (<< >> when absent or empty) and
\* a confidence in percent (0 when absent).
AnalysisOutcomes(texts) ==
    {[kind |-> "nokey"], [kind |-> "failed"]}
        \cup {[kind |-> "ok", improved |-> t, confidence |-> c] :
                t \in texts \cup {<< >>}, c \in {0, 90}}

AnalyzeWith(transcription, o) ==
    [improvedText |-> IF o.improved = << >> THEN transcription
                      ELSE o.improved,
     confidence |-> IF o.confidence = 0 THEN 80 ELSE o.confidence]

FallbackAnalysis(transcription) ==
    [improvedText |-> transcription, confidence |-> 50]

\* resp[1] is what Chroma AI does and resp[2] what Groq does.
AnalyzeTranscription(transcription, resp) ==
    IF resp[1].kind = "ok" THEN AnalyzeWith(transcription, resp[1])
    ELSE IF resp[2].kind = "ok" THEN AnalyzeWith(transcription, resp[2])
    ELSE FallbackAnalysis(transcription)

Max(a, b) == IF a >= b THEN a ELSE b

TranscriptionResult(statement, semanticResult, classification) ==
    [text |-> statement,
     statementType |-> IF classification.isDeclarative THEN "declarative"
                       ELSE ClassifyStatementType(statement),
     confidence |-> Max(semanticResult.confidence,
                        classification.confidence)]

InitClassify ==
    /\ apiKey \in CorrectionKeyConfigs
    /\ textIn \in Utterances(ClassifierChunks, MaxChunks)
                    \cup ClassifierExamples
    /\ classifierResp \in IF apiKey["anthropic"] THEN ClassifierOutcomes
                          ELSE {NoValue}
    /\ analysisResp \in {<< [kind |-> "nokey"], o >> :
                            o \in AnalysisOutcomes({})}
    /\ delivered = NoValue
    /\ correctionOut = NoValue
    /\ statementsOut = NoValue
    /\ LocalIdle /\ VerifyIdle /\ QueueIdle /\ BreakIdle /\ VoiceIdle

\* handleTranscription, for one statement of the utterance
ClassifyStatement ==
    /\ delivered = NoValue
    /\ delivered' =
         TranscriptionResult(textIn,
                             AnalyzeTranscription(textIn, analysisResp),
                             ClassifyStatementWithClaude(apiKey,
                                                         classifierResp))
    /\ UNCHANGED << localVars, apiKey, verifyVars, queueVars, breakVars,
                    correctionOut, textIn, classifierResp, analysisResp,
                    statementsOut, voiceVars >>

NextClassify == ClassifyStatement

SpecClassify == InitClassify /\ [][NextClassify]_vars

LocalKind == ClassifyStatementType(textIn)

RemoteAnswered == apiKey["anthropic"] /\ classifierResp.kind = "ok"

RemoteFailed == apiKey["anthropic"] /\ classifierResp.kind \in FailureKinds

\* C25: a statement the local rules classify as question is delivered with
\* kind question when the remote classifier is unconfigured, when it fails
\* and when it answers a kind other than declarative; and with no
\* credential configured the delivered kind is the local rules' kind.
C25_QuestionIsDeliveredAsQuestion ==
    delivered # NoValue =>
        /\ (/\ LocalKind = "question"
            /\ ~(RemoteAnswered /\ classifierResp.type = "declarative"))
              => delivered.statementType = "question"
        /\ ~apiKey["anthropic"] => delivered.statementType = LocalKind

\* C26: when the remote classification call fails, the statement is still
\* delivered, and its kind is the kind the local rules assign to it.
C26_FailureDegradesToLocalKind ==
    (delivered # NoValue /\ RemoteFailed)
        => delivered.statementType = LocalKind

\* C27: when the remote classifier answers, the delivered kind is
\* declarative exactly when the remote classifier called the statement
\* declarative, whatever the local rules say.
C27_RemoteOverridesBothWays ==
    (delivered # NoValue /\ RemoteAnswered)
        => (delivered.statementType = "declarative"
              <=> classifierResp.type = "declarative")

\* C28: the local classifier answers one of question, opinion, declarative
\* and other, in that priority: a question marker gives question; failing
\* that an opinion marker gives opinion; failing that factual structure
\* gives declarative; failing that the kind is other.  Read where the
\* delivered kind is the local classifier's answer, the remote classifier
\* having answered a kind other than declarative.
C28_LocalPriorityOrder ==
    (/\ delivered # NoValue
     /\ RemoteAnswered
     /\ classifierResp.type # "declarative")
        => LET n == ToLowerCase(Trim(textIn))
               kind == delivered.statementType
           IN  /\ kind \in StatementTypes
               /\ IsQuestion(n) => kind = "question"
               /\ (~IsQuestion(n) /\ IsOpinion(n)) => kind = "opinion"
               /\ (~IsQuestion(n) /\ ~IsOpinion(n) /\ IsFactual(n))
                     => kind = "declarative"
               /\ (~IsQuestion(n) /\ ~IsOpinion(n) /\ ~IsFactual(n))
                     => kind = "other"

C28_Witness ==
    /\ delivered # NoValue
    /\ RemoteAnswered
    /\ classifierResp.type = "opinion"
    /\ IsQuestion(ToLowerCase(Trim(textIn)))
    /\ IsOpinion(ToLowerCase(Trim(textIn)))
    /\ IsFactual(ToLowerCase(Trim(textIn)))
    /\ delivered.statementType = "question"

\* ---------------------------------------------------------------------
\* The segmenter: splitStatements, under every outcome of the two
\* semantic-analysis services.
\* ---------------------------------------------------------------------

RECURSIVE Split(_, _, _)
\* String.prototype.split from token k on, the matches of the pattern
\* given as the set of the token intervals << first, last >> they cover.
Split(t, matches, k) ==
    LET ahead == {m \in matches : m[1] >= k}
    IN  IF ahead = {} THEN << SubSeq(t, k, Len(t)) >>
        ELSE LET m == CHOOSE x \in ahead : \A y \in ahead : x[1] <= y[1]
             IN  << SubSeq(t, k, m[1] - 1) >> \o Split(t, matches, m[2] + 1)

\* The matches of /[.;]+/: the longest runs of periods and semicolons.
SentenceBreaks(t) ==
    {<< a, b >> \in (1..Len(t)) \X (1..Len(t)) :
        /\ a <= b
        /\ \A k \in a..b : t[k] \in {".", ";"}
        /\ a > 1 => t[a - 1] \notin {".", ";"}
        /\ b < Len(t) => t[b + 1] \notin {".", ";"}}

\* The conjunctions in the order they are tried; comma tells whether the
\* pattern starts with ", " instead of " ".  The last pattern, "; ", is
\* written as a word: no sentence holds a semicolon.
Conjunctions ==
    << [comma |-> FALSE, word |-> "and"], [comma |-> FALSE, word |-> "but"],
       [comma |-> FALSE, word |-> "or"], [comma |-> FALSE, word |-> "so"],
       [comma |-> FALSE, word |-> "because"],
       [comma |-> FALSE, word |-> "however"],
       [comma |-> FALSE, word |-> "therefore"],
       [comma |-> FALSE, word |-> "moreover"],
       [comma |-> FALSE, word |-> "furthermore"],
       [comma |-> FALSE, word |-> "additionally"],
       [comma |-> FALSE, word |-> "also"],
       [comma |-> TRUE, word |-> "and"], [comma |-> TRUE, word |-> "but"],
       [comma |-> TRUE, word |-> "so"], [comma |-> FALSE, word |-> ";"] >>

\* Token k is the word of the conjunction with the pattern's characters
\* around it: a space (or ", ") before and a space after.
Candidate(t, conj, k) ==
    /\ k > 1 /\ k < Len(t)
    /\ LowerWord(t[k]) = conj.word
    /\ ~IsPunct(t[k + 1])
    /\ conj.comma => t[k - 1] = ","

RECURSIVE Matched(_, _, _)
\* The matches of new RegExp(conj, "gi"), left to right: a match uses up
\* the space after it, so the word right after it is no match.
Matched(t, conj, k) ==
    /\ Candidate(t, conj, k)
    /\ ~(k > 2 /\ Matched(t, conj, k - 1))

ConjunctionMatches(t, conj) ==
    {<< IF conj.comma THEN k - 1 ELSE k, k >> :
        k \in {j \in 1..Len(t) : Matched(t, conj, j)}}

SplitVerbs ==
    {"is", "are", "was", "were", "has", "have", "had", "will", "would",
     "can", "could", "does", "did"}

MinLength == 5

HasVerb(part) == \E k \in 1..Len(part) : LowerWord(part[k]) \in SplitVerbs

ValidPartLongOnly(part) ==
    HasVerb(part) /\ Length(Trim(part)) > 2 * MinLength

ValidPart(part) == HasVerb(part) /\ Length(Trim(part)) > MinLength

RECURSIVE SplitSentence(_, _)
\* The statements of one sentence, the conjunctions tried from the i-th on.
SplitSentence(remainingText, i) ==
    IF i > Len(Conjunctions)
    THEN IF Length(remainingText) > 0 THEN << remainingText >> ELSE << >>
    ELSE LET matches == ConjunctionMatches(remainingText, Conjunctions[i])
             parts == Split(remainingText, matches, 1)
             validParts == SelectSeq(parts, ValidPart)
         IN  IF matches # {} /\ Len(validParts) > 1
             THEN [k \in 1..Len(validParts) |-> Trim(validParts[k])]
             ELSE SplitSentence(remainingText, i + 1)

Sentences(currentText) ==
    SelectSeq(Split(currentText, SentenceBreaks(currentText), 1),
              LAMBDA s : Trim(s) # << >>)

RECURSIVE SplitEach(_)
SplitEach(sentences) ==
    IF sentences = << >> THEN << >>
    ELSE SplitSentence(Trim(Head(sentences)), 1) \o SplitEach(Tail(sentences))

SplitStatements(text, resp) ==
    LET analysis == AnalyzeTranscription(text, resp)
        statements == SplitEach(Sentences(analysis.improvedText))
    IN  IF Len(statements) > 0 THEN statements
        ELSE << analysis.improvedText >>

SegmenterChunks ==
    {<< "The", "sky", "is", "blue" >>, << "water", "is", "wet" >>,
     << "I", "can" >>, << "you", "will" >>, << "quickly" >>, << "and" >>,
     << "And" >>, << "but" >>, << "," >>, << "." >>, << Blank >>}

ImprovedTexts == {<< "." >>, << "it", "is", "so" >>}

InitSplit ==
    /\ textIn \in Utterances(SegmenterChunks, MaxChunks)
                    \cup {<< "quickly", "and", "The", "sky", "is", "blue",
                              "and", "water", "is", "wet" >>,
                           << "I", "can", "and", "The", "sky", "is", "blue",
                              "and", "water", "is", "wet" >>}
    /\ analysisResp \in
         {<< o, [kind |-> "nokey"] >> : o \in AnalysisOutcomes(ImprovedTexts)}
           \cup {<< [kind |-> "failed"], o >> :
                   o \in AnalysisOutcomes(ImprovedTexts)}
    /\ statementsOut = NoValue
    /\ apiKey \in {[p \in Providers |-> FALSE]}
    /\ correctionOut = NoValue
    /\ classifierResp = NoValue
    /\ delivered = NoValue
    /\ LocalIdle /\ VerifyIdle /\ QueueIdle /\ BreakIdle /\ VoiceIdle

\* splitStatements
SplitStatementsReturns ==
    /\ statementsOut = NoValue
    /\ statementsOut' = [statements |-> SplitStatements(textIn, analysisResp)]
    /\ UNCHANGED << localVars, apiKey, verifyVars, queueVars, breakVars,
                    correctionOut, textIn, classifierResp, delivered,
                    analysisResp, voiceVars >>

NextSplit == SplitStatementsReturns

SpecSplit == InitSplit /\ [][NextSplit]_vars

\* The text the segmenter works on: the improved text of the analysis,
\* which is the input text unless a service answered another one.
CurrentText == AnalyzeTranscription(textIn, analysisResp).improvedText

\* C29: splitStatements never returns an empty sequence, and when no
\* sentence of the text it works on holds a statement, it returns the
\* input text, unmodified, as the only element.
C29_NeverEmptyElseInput ==
    statementsOut # NoValue =>
        /\ Len(statementsOut.statements) >= 1
        /\ Sentences(CurrentText) = << >>
              => statementsOut.statements = << textIn >>

IsWord(tok) ==
    /\ ~IsPunct(tok)
    /\ tok # Blank
    /\ \A i \in 1..Len(Conjunctions) : LowerWord(tok) # Conjunctions[i].word

IsClause(c) ==
    /\ c # << >>
    /\ \A k \in 1..Len(c) : IsWord(c[k])
    /\ HasVerb(c)

JoinedByAnd(t, k) ==
    /\ t[k] = "and"
    /\ IsClause(SubSeq(t, 1, k - 1))
    /\ IsClause(SubSeq(t, k + 1, Len(t)))

PartsAt(sentence, i) ==
    Split(sentence, ConjunctionMatches(sentence, Conjunctions[i]), 1)

\* C31: a sentence is split at a conjunction only if every part has a verb
\* of the closed set and is longer than five characters, and is emitted
\* whole otherwise: the statements of a text of one sentence are the
\* sentence or all the parts of it at one conjunction (the analysis
\* leaving the text as it is).
C31_WholeOrAllParts ==
    (/\ statementsOut # NoValue
     /\ CurrentText = textIn
     /\ Len(Sentences(textIn)) = 1)
        => LET sentence == Trim(Sentences(textIn)[1])
           IN  \/ statementsOut.statements = << sentence >>
               \/ \E i \in 1..Len(Conjunctions) :
                     LET parts == PartsAt(sentence, i)
                     IN  /\ \A k \in 1..Len(parts) : ValidPart(parts[k])
                         /\ statementsOut.statements =
                               [k \in 1..Len(parts) |-> Trim(parts[k])]

GetVerificationForTranscription(index) ==
    LET declarativeCount ==
            Cardinality({j \in 1..index :
                           transcriptions[j].statementType = "declarative"})
    IN  IF declarativeCount \in 1..Len(verificationResults)
        THEN verificationResults[declarativeCount]
        ELSE NoValue

\* C33: the verification result the panel shows for a declarative
\* transcription is the result of verifying that statement: the result
\* processStatement got for the queue entry holding the transcription's
\* text (read where the transcriptions have different texts).
C33_ShownResultIsOwnResult ==
    \A k \in 1..Len(transcriptions) :
        (/\ transcriptions[k].statementType = "declarative"
         /\ \A j \in 1..Len(transcriptions) :
               j # k => transcriptions[j].text # transcriptions[k].text
         /\ GetVerificationForTranscription(k) # NoValue)
            => \E e \in 1..Len(speakerQueue) :
                  /\ speakerQueue[e].statement_text = transcriptions[k].text
                  /\ presult[speakerQueue[e].id] =
                        GetVerificationForTranscription(k)

ProcessingIds ==
    {speakerQueue[k].id : k \in {j \in 1..Len(speakerQueue) :
                                   speakerQueue[j].processing_status = "processing"}}

\* C34: whenever some entry of the queue has status Processing,
\* processingStatement is defined and names an entry that is Processing;
\* it is undefined only when no entry is Processing.
C34_IndicatorMatchesQueue ==
    ProcessingIds # {} => processingStatement \in ProcessingIds

\* The status the step writes to the in-memory entry of id, if it is the
\* step of id's processStatement call in which an upsert has succeeded.
StatusWritten(id, old) ==
    IF ppc[id] = "upsertProcessing" /\ ppc'[id] = "verify" THEN "processing"
    ELSE IF ppc[id] = "upsertProcessed" /\ ppc'[id] \in {"done", "awaitSpeech"}
    THEN "processed"
    ELSE IF ppc[id] = "upsertFailed" /\ ppc'[id] = "done" THEN "failed"
    ELSE old

\* C35: no status update of the in-memory queue is lost or lands on
\* another entry: in every step every entry stays in its place, an entry
\* whose call has just had an upsert succeed has the status of that upsert
\* and every other entry keeps its status.
C35_NoUpdateLostOrMisplaced ==
    [][/\ Len(speakerQueue') >= Len(speakerQueue)
       /\ \A k \in 1..Len(speakerQueue) :
             /\ speakerQueue'[k].id = speakerQueue[k].id
             /\ speakerQueue'[k].processing_status =
                   StatusWritten(speakerQueue[k].id,
                                 speakerQueue[k].processing_status)]_vars

C35_Witness ==
    /\ Len(speakerQueue) = 2
    /\ speakerQueue[1].processing_status = "processing"
    /\ speakerQueue[2].processing_status = "processed"
    /\ ppc[speakerQueue[2].id] = "done"

\* C36: every agent entry verifyStatement works with, and so every entry
\* of a result it returns, has verdict true, false or inconclusive: an
\* agent body that parses but lacks or garbles the verdict gives that
\* agent's entry inconclusive with confidence 0 (Bright Data, whose body
\* carries no verdict, apart).
C36_VerdictsAreWellFormed ==
    \A i \in AgentIds :
        settled[i] # Pending =>
            /\ settled[i].verdict \in Verdicts
            /\ (/\ apiKey[KeyOf[i]]
                /\ i # 4
                /\ response[i].kind = "ok"
                /\ response[i].verdict \notin Verdicts)
                  => (settled[i].verdict = "inconclusive"
                        /\ settled[i].confidence = 0)

\* C37: each scheduled correction gives exactly one speech-output call,
\* of the lead-in followed by the correction text: a call is made in the
\* step in which the wait of a correction ends, and in no other step,
\* although the 10 s timer still fires after the poll has ended the wait.
C37_SpokenExactlyOnce ==
    [][IF bpc = "waiting" /\ bpc' = "spoken"
       THEN /\ Len(spoken') = Len(spoken) + 1
            /\ SubSeq(spoken', 1, Len(spoken)) = spoken
            /\ spoken'[Len(spoken')].leadIn = "Actually, that's not quite right. "
       ELSE spoken' = spoken]_vars

\* C37 witness: the poll ended the wait, the 10 s timer of the same wait
\* has fired since, and one call has been made.
C37_Witness ==
    /\ bpc = "spoken"
    /\ elapsed = CeilingMs
    /\ ~capSpeaking
    /\ Len(spoken) = 1

\* C38: in every result verifyStatement returns, isFalse holds exactly
\* when consensus is verified_false and exactly when the consensus verdict
\* is false, consensus is verified_true, verified_false or inconclusive,
\* and a correction text is present exactly when isFalse holds.
C38_ResultFieldsAgree ==
    vpc = "returned" =>
        /\ vresult.isFalse <=> vresult.consensus = "verified_false"
        /\ vresult.isFalse <=> vresult.lavaGatewayConsensus.verdict = "false"
        /\ vresult.consensus \in
              {"verified_true", "verified_false", "inconclusive"}
        /\ vresult.isFalse <=> vresult.correctInformation # NoValue

\* ------------------------------------------------------------------------
\* VoiceService: listening sessions and concurrent handleTranscription calls
\* ------------------------------------------------------------------------

\* The history keeps the last 10 statements, the context is its last 5.
HistoryLimit == 10

ContextSize == 5

\* transcriptionHistory.slice(-5)
Slice(history) ==
    SubSeq(history, Max(1, Len(history) - ContextSize + 1), Len(history))

PushKeepAll(history, statement) == Append(history, statement)

\* transcriptionHistory.push(statement), then shift() above 10 entries
Push(history, statement) ==
    LET pushed == Append(history, statement)
    IN  IF Len(pushed) > HistoryLimit THEN Tail(pushed) ELSE pushed

\* this.onTranscriptionCallback?.(result), then the next turn of the loop:
\* the next statement goes to the classifier, or the call ends.
CallbackAndNext(call, callback) ==
    LET results == IF callback = 0 THEN call.delivered
                   ELSE Append(call.delivered,
                               [to |-> callback, segment |-> call.index])
    IN  IF call.index < call.statements
        THEN [call EXCEPT !.delivered = results, !.index = call.index + 1,
                          !.pc = "classify"]
        ELSE [call EXCEPT !.delivered = results, !.pc = "done"]

\* startListening(callback), called while no session is running (the App
\* offers start and stop on one button); every call passes a callback of
\* its own.
VoiceStartListening ==
    /\ onTranscriptionCallback = 0
    /\ listens < MaxListens
    /\ listens' = listens + 1
    /\ onTranscriptionCallback' = listens + 1
    /\ transcriptionHistory' = << >>
    /\ UNCHANGED << utterances, handling, contextPassed >>
    /\ UNCHANGED << localVars, apiKey, verifyVars, queueVars, breakVars,
                    correctionOut, textIn, classifierResp, delivered,
                    analysisResp, statementsOut >>

\* stopListening()
VoiceStopListening ==
    /\ onTranscriptionCallback # 0
    /\ onTranscriptionCallback' = 0
    /\ UNCHANGED << listens, transcriptionHistory, utterances, handling,
                    contextPassed >>
    /\ UNCHANGED << localVars, apiKey, verifyVars, queueVars, breakVars,
                    correctionOut, textIn, classifierResp, delivered,
                    analysisResp, statementsOut >>

\* The transcription loop of the running session sends the audio of an
\* utterance to Whisper and awaits the answer before it sends the next; the
\* call takes the first free slot.
TranscribeWithGroqWhisper(c) ==
    /\ onTranscriptionCallback # 0
    /\ \A d \in Slots : handling[d].pc = "whisper"
                            => handling[d].session # onTranscriptionCallback
    /\ utterances < MaxUtterances
    /\ handling[c].pc \in {"none", "done"}
    /\ \A d \in 1..(c - 1) : handling[d].pc \notin {"none", "done"}
    /\ utterances' = utterances + 1
    /\ handling' = [handling EXCEPT ![c] =
                      [NoCall EXCEPT !.pc = "whisper",
                                     !.session = onTranscriptionCallback,
                                     !.utterance = utterances + 1]]
    /\ UNCHANGED << onTranscriptionCallback, listens, transcriptionHistory,
                    contextPassed >>
    /\ UNCHANGED << localVars, apiKey, verifyVars, queueVars, breakVars,
                    correctionOut, textIn, classifierResp, delivered,
                    analysisResp, statementsOut >>

\* Whisper answers: with a text handleTranscription is entered and calls
\* analyzeTranscription, without one the utterance is skipped.
WhisperReturns(c, hasText) ==
    /\ handling[c].pc = "whisper"
    /\ handling' = [handling EXCEPT ![c] =
                      [@ EXCEPT !.pc = IF hasText THEN "analyze" ELSE "done"]]
    /\ contextPassed' = IF hasText THEN Slice(transcriptionHistory)
                        ELSE contextPassed
    /\ UNCHANGED << onTranscriptionCallback, listens, transcriptionHistory,
                    utterances >>
    /\ UNCHANGED << localVars, apiKey, verifyVars, queueVars, breakVars,
                    correctionOut, textIn, classifierResp, delivered,
                    analysisResp, statementsOut >>

\* analyzeTranscription resolves; splitStatements is called.
AnalyzeReturns(c) ==
    /\ handling[c].pc = "analyze"
    /\ handling' = [handling EXCEPT ![c] = [@ EXCEPT !.pc = "split"]]
    /\ contextPassed' = Slice(transcriptionHistory)
    /\ UNCHANGED << onTranscriptionCallback, listens, transcriptionHistory,
                    utterances >>
    /\ UNCHANGED << localVars, apiKey, verifyVars, queueVars, breakVars,
                    correctionOut, textIn, classifierResp, delivered,
                    analysisResp, statementsOut >>

\* splitStatements resolves with n statements; the first one goes to the
\* classifier.
SplitReturns(c, n) ==
    /\ handling[c].pc = "split"
    /\ handling' = [handling EXCEPT ![c] =
                      [@ EXCEPT !.pc = "classify", !.statements = n,
                                !.index = 1]]
    /\ contextPassed' = Slice(transcriptionHistory)
    /\ UNCHANGED << onTranscriptionCallback, listens, transcriptionHistory,
                    utterances >>
    /\ UNCHANGED << localVars, apiKey, verifyVars, queueVars, breakVars,
                    correctionOut, textIn, classifierResp, delivered,
                    analysisResp, statementsOut >>

\* classifyStatementWithClaude resolves: the statement enters the history;
\* with a session id storeTranscription is awaited, without one the result
\* is handed over at once.
ClassifyReturns(c, hasSessionId) ==
    /\ handling[c].pc = "classify"
    /\ transcriptionHistory' =
         Push(transcriptionHistory,
              [utterance |-> handling[c].utterance,
               segment |-> handling[c].index])
    /\ handling' = [handling EXCEPT ![c] =
                      IF hasSessionId
                      THEN [@ EXCEPT !.pc = "store"]
                      ELSE CallbackAndNext(@, onTranscriptionCallback)]
    /\ contextPassed' = IF handling'[c].pc = "classify"
                        THEN Slice(transcriptionHistory')
                        ELSE contextPassed
    /\ UNCHANGED << onTranscriptionCallback, listens, utterances >>
    /\ UNCHANGED << localVars, apiKey, verifyVars, queueVars, breakVars,
                    correctionOut, textIn, classifierResp, delivered,
                    analysisResp, statementsOut >>

\* storeTranscription resolves; the result is handed over.
StoreReturns(c) ==
    /\ handling[c].pc = "store"
    /\ handling' = [handling EXCEPT ![c] =
                      CallbackAndNext(@, onTranscriptionCallback)]
    /\ contextPassed' = IF handling'[c].pc = "classify"
                        THEN Slice(transcriptionHistory)
                        ELSE contextPassed
    /\ UNCHANGED << onTranscriptionCallback, listens, transcriptionHistory,
                    utterances >>
    /\ UNCHANGED << localVars, apiKey, verifyVars, queueVars, breakVars,
                    correctionOut, textIn, classifierResp, delivered,
                    analysisResp, statementsOut >>

\* Either nothing has been started, or the first session is under way and
\* has handled to the end, one after the other, earlier utterances of one
\* statement each (numbered up to 0).
InitVoice ==
    LET EarlierHistory ==
          [k \in 1..EarlierStatements |->
             [utterance |-> k - EarlierStatements, segment |-> 1]]
    IN
    /\ apiKey \in {[p \in Providers |-> FALSE]}
    /\ LocalIdle /\ VerifyIdle /\ QueueIdle /\ BreakIdle
    /\ correctionOut = NoValue
    /\ textIn = NoValue
    /\ classifierResp = NoValue
    /\ delivered = NoValue
    /\ analysisResp = NoValue
    /\ statementsOut = NoValue
    /\ \/ VoiceIdle
       \/ /\ onTranscriptionCallback = 1
          /\ listens = 1
          /\ transcriptionHistory = EarlierHistory
          /\ utterances = 0
          /\ handling = [c \in Slots |-> NoCall]
          /\ contextPassed = Slice(SubSeq(EarlierHistory, 1,
                                          EarlierStatements - 1))

NextVoice ==
    \/ VoiceStartListening
    \/ VoiceStopListening
    \/ \E c \in Slots : TranscribeWithGroqWhisper(c)
    \/ \E c \in Slots, hasText \in BOOLEAN : WhisperReturns(c, hasText)
    \/ \E c \in Slots : AnalyzeReturns(c)
    \/ \E c \in Slots, n \in 1..MaxStatements : SplitReturns(c, n)
    \/ \E c \in Slots, hasSessionId \in BOOLEAN :
           ClassifyReturns(c, hasSessionId)
    \/ \E c \in Slots : StoreReturns(c)

SpecVoice == InitVoice /\ [][NextVoice]_vars

\* C39: a transcription result is delivered only to the callback of the
\* listening session during which its utterance arrived; after stopListening
\* no result of that session is delivered, also when its handleTranscription
\* call is still in flight at the stop and startListening has been called
\* again with a new callback before the call finishes.
C39_DeliveredToOwnSessionOnly ==
    \A c \in Slots :
        \A j \in DOMAIN handling[c].delivered :
            handling[c].delivered[j].to = handling[c].session

\* The statements of one utterance reach the callback in segment order.
InSegmentOrder(results) ==
    \A i, j \in DOMAIN results :
        i < j => results[i].segment < results[j].segment

\* In this step some call hands a context to analyzeTranscription,
\* splitStatements or classifyStatementWithClaude.
ContextIsPassed ==
    \E c \in Slots :
        /\ handling'[c].pc \in {"analyze", "split", "classify"}
        /\ \/ handling'[c].pc # handling[c].pc
           \/ handling'[c].index # handling[c].index

\* context holds at most the 5 most recent entries of history, most recent
\* last.
MostRecentOf(context, history) ==
    /\ Len(context) <= ContextSize
    /\ Len(context) <= Len(history)
    /\ \A j \in 1..Len(context) :
          context[j] = history[Len(history) - Len(context) + j]

\* C40: under any interleaving of concurrent handleTranscription calls the
\* transcription history never holds more than 10 statements between steps,
\* the context passed to segmentation and classification is at most the 5
\* most recent history entries (most recent last), and the statements of
\* one utterance are delivered to the callback in segment order.
C40_HistoryContextAndOrder ==
    /\ [](/\ Len(transcriptionHistory) <= HistoryLimit
          /\ \A c \in Slots : InSegmentOrder(handling[c].delivered))
    /\ [][ContextIsPassed =>
             MostRecentOf(contextPassed', transcriptionHistory')]_vars

\* The history is full and has lost its oldest entry, the context passed
\* last has 5 entries, and an utterance of two statements has been delivered
\* in full while a call that began before it is still in flight.
C40_Witness ==
    /\ Len(transcriptionHistory) = HistoryLimit
    /\ transcriptionHistory[1].utterance > 1 - EarlierStatements
    /\ transcriptionHistory[1].utterance <= 0
    /\ Len(contextPassed) = ContextSize
    /\ \E c, d \in Slots :
          /\ handling[c].pc = "done"
          /\ Len(handling[c].delivered) = 2
          /\ handling[d].pc \in {"classify", "store"}
          /\ handling[d].utterance < handling[c].utterance

====
